---- MODULE Spec2Model ----
(***************************************************************************)
(* Page-object generation of cypress-mcp.                                  *)
(*                                                                         *)
(* The repository carries several iterations of the same generator.  The   *)
(* model runs each of them on the same parsed documents:                   *)
(*   "index"   src/src/index.js              (1.0.19, toCamelCase names)   *)
(*   "generic" src/unnamed/part_000:544-978  (1.0.21, getLocatorAndRawName)*)
(*   "legacy"  src/unnamed/part_001          (1.0.0, workflows and tests)  *)
(*   "first"   src/unnamed/part_000:1-543    (1.0.0, sanitised id and name)*)
(*                                                                         *)
(* Spec runs the generator alone, SpecCalls adds calls of the workflow     *)
(* methods of the class it returned, and SpecServer runs two tool handlers *)
(* with CypressFileManager, interleaved at their awaits.  SpecWorkspace    *)
(* runs detectWorkspace on a chain of directories.                         *)
(*                                                                         *)
(* Text is a sequence of one-character strings, so that trimming,          *)
(* camel-casing, sanitising and capitalising are computed character by     *)
(* character as the JavaScript does.  A locator expression and an emitted  *)
(* method are records holding the parts the template interpolates.         *)
(***************************************************************************)
EXTENDS Integers, Sequences, FiniteSets, TLC

VARIABLES
    variant,            \* which iteration of the generator serves the request
    doc,                \* the parsed document ($)
    url,                \* the url argument
    customFeatureName,  \* the pageObjectName argument (<<>> when absent)
    pc,                 \* position inside the current run
    run,                \* number of generation runs started on this document
    featureName,        \* locals of generatePageObjectClass ...
    className,
    elements,
    getters,
    valueGetters,
    interactionMethods,
    workflowMethods,
    elementCounter,
    elementMeta,
    flags,              \* hasLoginForm, hasSearchForm, hasSubmitButton, hasRegistrationForm
    records,            \* per classified element: the node, its locator, label and name
    results,            \* what each finished run returned (or the error it threw)
    tests,              \* what generateCypressTests returned for each finished run
    invoked,            \* the last call of a workflow method on the generated class
    handlers,           \* the tool requests in flight: each handler's locals and position
    files,              \* the workspace on disk: path -> content
    clock,              \* Date.now(), as far as backup names tell it apart
    alone,              \* for each handler, what its request yields when nothing else runs
    workspace           \* detectWorkspace: the directories, currentPath and the outcome

serverVars == << handlers, files, clock, alone, workspace >>

vars == << variant, doc, url, customFeatureName, pc, run, featureName, className,
           elements, getters, valueGetters, interactionMethods, workflowMethods,
           elementCounter, elementMeta, flags, records, results, tests, invoked,
           handlers, files, clock, alone, workspace >>

-----------------------------------------------------------------------------
(* Bounds of the model.                                                    *)

\* most elements of a generated document
MaxElems == 2
\* generation runs on one document
MaxRuns == 2

-----------------------------------------------------------------------------
(* Characters and strings.                                                 *)

LowerChars == << "a","b","c","d","e","f","g","h","i","j","k","l","m",
                 "n","o","p","q","r","s","t","u","v","w","x","y","z" >>
UpperChars == << "A","B","C","D","E","F","G","H","I","J","K","L","M",
                 "N","O","P","Q","R","S","T","U","V","W","X","Y","Z" >>
DigitChars == << "0","1","2","3","4","5","6","7","8","9" >>

Range(s) == { s[i] : i \in DOMAIN s }

LowerSet == Range(LowerChars)
UpperSet == Range(UpperChars)
DigitSet == Range(DigitChars)
AlnumSet == LowerSet \cup UpperSet \cup DigitSet
LowerAlnumSet == LowerSet \cup DigitSet

UpperOf == [ c \in LowerSet |-> UpperChars[CHOOSE i \in DOMAIN LowerChars : LowerChars[i] = c] ]
LowerOf == [ c \in UpperSet |-> LowerChars[CHOOSE i \in DOMAIN UpperChars : UpperChars[i] = c] ]

\* String.prototype.toUpperCase / toLowerCase on one character
toUpperCase(c) == IF c \in LowerSet THEN UpperOf[c] ELSE c
toLowerCase(c) == IF c \in UpperSet THEN LowerOf[c] ELSE c

LowerAll(s) == [ i \in DOMAIN s |-> toLowerCase(s[i]) ]

\* [a-zA-Z0-9]
IsAlnum(c) == c \in AlnumSet
\* \s
IsSpace(c) == c \in { " ", "\t", "\n" }
\* [-_\s]
IsSeparator(c) == c \in { "-", "_" } \/ IsSpace(c)

\* decimal text of a number, as a template literal interpolates it
RECURSIVE NumToStr(_)
NumToStr(n) == IF n < 10 THEN << DigitChars[n + 1] >>
               ELSE NumToStr(n \div 10) \o << DigitChars[(n % 10) + 1] >>

\* String.prototype.trim
RECURSIVE TrimLeft(_)
TrimLeft(s) == IF s # << >> /\ IsSpace(Head(s)) THEN TrimLeft(Tail(s)) ELSE s
RECURSIVE TrimRight(_)
TrimRight(s) == IF s # << >> /\ IsSpace(s[Len(s)]) THEN TrimRight(SubSeq(s, 1, Len(s) - 1)) ELSE s
Trim(s) == TrimRight(TrimLeft(s))

\* s.split(' ')[0]
RECURSIVE FirstToken(_)
FirstToken(s) == IF s = << >> \/ Head(s) = " " THEN << >> ELSE << Head(s) >> \o FirstToken(Tail(s))

\* s.replace(/[^a-zA-Z0-9]/g, '_')
Underscored(s) == [ i \in DOMAIN s |-> IF IsAlnum(s[i]) THEN s[i] ELSE "_" ]

\* s.charAt(0).toUpperCase() + s.slice(1)
cap(s) == IF s = << >> THEN << >> ELSE << toUpperCase(Head(s)) >> \o Tail(s)

\* s.startsWith(p), s.endsWith(p), s.includes(p)
StartsWith(s, p) == Len(p) <= Len(s) /\ SubSeq(s, 1, Len(p)) = p
EndsWith(s, p) == Len(p) <= Len(s) /\ SubSeq(s, Len(s) - Len(p) + 1, Len(s)) = p
Includes(s, p) == \E i \in 1..(Len(s) - Len(p) + 1) : SubSeq(s, i, i + Len(p) - 1) = p

\* first position at or after i that holds no separator (Len(s) + 1 when none)
RECURSIVE SkipSeparators(_, _)
SkipSeparators(s, i) == IF i <= Len(s) /\ IsSeparator(s[i]) THEN SkipSeparators(s, i + 1) ELSE i

\* str.replace(/[-_\s]+(.)?/g, (_, c) => c ? c.toUpperCase() : '')
RECURSIVE CamelFrom(_, _)
CamelFrom(s, i) ==
    IF i > Len(s) THEN << >>
    ELSE IF IsSeparator(s[i])
         THEN LET j == SkipSeparators(s, i)
              IN IF j > Len(s) THEN << >>
                 ELSE << toUpperCase(s[j]) >> \o CamelFrom(s, j + 1)
         ELSE << s[i] >> \o CamelFrom(s, i + 1)

LowerFirst(s) == IF s = << >> THEN << >> ELSE << toLowerCase(Head(s)) >> \o Tail(s)

\* toCamelCase(str)
toCamelCase(str) == LowerFirst(CamelFrom(str, 1))

-----------------------------------------------------------------------------
(* Words the templates interpolate.                                        *)

W_button   == << "b","u","t","t","o","n" >>
W_input    == << "i","n","p","u","t" >>
W_link     == << "l","i","n","k" >>
W_select   == << "s","e","l","e","c","t" >>
W_textarea == << "t","e","x","t","a","r","e","a" >>
W_a        == << "a" >>
W_text     == << "t","e","x","t" >>
W_password == << "p","a","s","s","w","o","r","d" >>
W_checkbox == << "c","h","e","c","k","b","o","x" >>
W_radio    == << "r","a","d","i","o" >>
W_submit   == << "s","u","b","m","i","t" >>
W_search   == << "s","e","a","r","c","h" >>
W_login    == << "l","o","g","i","n" >>
W_register == << "r","e","g","i","s","t","e","r" >>
W_page     == << "p","a","g","e" >>
W_Page     == << "P","a","g","e" >>
SP         == << " " >>
US         == << "_" >>

\* the text of a tag name, as `${tag}` interpolates it
TagWord(tag) == CASE tag = "button"   -> W_button
                  [] tag = "input"    -> W_input
                  [] tag = "a"        -> W_a
                  [] tag = "select"   -> W_select
                  [] tag = "textarea" -> W_textarea

-----------------------------------------------------------------------------
(* Locator expressions and emitted members.                                *)

\* a locator without .eq(k) carries << >>, one with .eq(k) carries << k >>
NoIndex == << >>

\* cy.get('[<attr>="<val>"]')
GetByAttr(attr, val) == [ fn |-> "get", tag |-> "", attr |-> attr, val |-> val, eq |-> NoIndex ]
\* cy.get('#<id>')
GetById(id) == [ fn |-> "get", tag |-> "", attr |-> "id", val |-> id, eq |-> NoIndex ]
\* cy.get('<tag>[<attr>="<val>"]')
GetByTagAttr(tag, attr, val) == [ fn |-> "get", tag |-> tag, attr |-> attr, val |-> val, eq |-> NoIndex ]
\* cy.contains('<tag>', '<text>')
ContainsText(tag, text) == [ fn |-> "contains", tag |-> tag, attr |-> "text", val |-> text, eq |-> NoIndex ]
\* cy.get('button.<cls>')
GetByClass(tag, cls) == [ fn |-> "get", tag |-> tag, attr |-> "class", val |-> cls, eq |-> NoIndex ]
\* cy.get('<tag>').eq(<k>)
GetNth(tag, k) == [ fn |-> "get", tag |-> tag, attr |-> "", val |-> << >>, eq |-> << k >> ]
\* cy.get('input[type="<type>"]').eq(<k>)
GetNthOfType(type, k) == [ fn |-> "get", tag |-> "input", attr |-> "type", val |-> type, eq |-> << k >> ]
\* cy.get('<tag>')
GetTag(tag) == [ fn |-> "get", tag |-> tag, attr |-> "", val |-> << >>, eq |-> NoIndex ]

\* `    ${elementName}: () => ${locator}`
Entry(elementName, locator) == [ key |-> elementName, locator |-> locator ]
\* `    <verb>${cap(elementName)}(..) { return this.#elements.${elementName}()... }`
Method(verb, elementName) == [ verb |-> verb, name |-> cap(elementName), ref |-> elementName ]
\* `    get ${name}() { return this.#elements.${elementName}() }`
Getter(name, elementName) == [ name |-> name, ref |-> elementName ]
\* { type, elementName }
Meta(type, elementName) == [ type |-> type, elementName |-> elementName ]

\* what one callback of $(..).each leaves behind for the element it classified
Classified(node, locator, rawName, elementName) ==
    [ node |-> node, locator |-> locator, rawName |-> rawName, elementName |-> elementName ]

-----------------------------------------------------------------------------
(* The parsed document.  A node is one button, input, a, select or         *)
(* textarea element; an attribute that is absent or empty is << >> (both   *)
(* are falsy for the generator).  form is 0 for a node outside every form  *)
(* and k for a descendant of the k-th form element.                        *)

Tags == << "button", "input", "a", "select", "textarea" >>

Node == [ tag |-> "button", type |-> << >>, cy |-> << >>, test |-> << >>, testid |-> << >>,
          id |-> << >>, name |-> << >>, placeholder |-> << >>, class |-> << >>,
          text |-> << >>, href |-> << >>, form |-> 0 ]

\* $(tag): the nodes of one tag, in document order
RECURSIVE Select(_, _)
Select(nodes, tag) ==
    IF nodes = << >> THEN << >>
    ELSE IF Head(nodes).tag = tag THEN << Head(nodes) >> \o Select(Tail(nodes), tag)
         ELSE Select(Tail(nodes), tag)

\* $el.attr('type') || 'text'
TypeOrText(el) == IF el.type # << >> THEN el.type ELSE W_text

-----------------------------------------------------------------------------
(* src/src/index.js: the five $(..).each callbacks.  L holds the locals    *)
(* of generatePageObjectClass the callbacks close over.                    *)

\* locals that keep the element counter of the run before
StaleCounterLocals ==
    [ elements |-> << >>, getters |-> << >>, valueGetters |-> << >>,
      interactionMethods |-> << >>, elementMeta |-> << >>, elementCounter |-> elementCounter,
      records |-> << >>, error |-> "none" ]

\* locals that are one set of arrays for every run: the entries of the run
\* before stay in them
SharedArraysLocals ==
    [ elements |-> elements, getters |-> getters, valueGetters |-> valueGetters,
      interactionMethods |-> interactionMethods, elementMeta |-> elementMeta,
      elementCounter |-> 1, records |-> << >>, error |-> "none" ]

\* the locals as generatePageObjectClass creates them
NewLocals ==
    [ elements |-> << >>, getters |-> << >>, valueGetters |-> << >>,
      interactionMethods |-> << >>, elementMeta |-> << >>, elementCounter |-> 1,
      records |-> << >>, error |-> "none" ]

Resolved(locator, rawName) == [ locator |-> locator, rawName |-> rawName ]

ButtonLocator_index(el, counter) ==
    LET text == Trim(el.text)
    IN IF el.testid # << >> THEN Resolved(GetByAttr("data-testid", el.testid), W_button \o SP \o el.testid)
       ELSE IF el.id # << >> THEN Resolved(GetById(el.id), W_button \o SP \o el.id)
       ELSE IF text # << >> THEN Resolved(ContainsText("button", text), W_button \o SP \o text)
       ELSE IF el.class # << >>
            THEN Resolved(GetByClass("button", FirstToken(el.class)), W_button \o SP \o FirstToken(el.class))
       ELSE Resolved(GetNth("button", counter - 1), W_button \o SP \o NumToStr(counter))

EachButton_index(i, el, L) ==
    LET r == ButtonLocator_index(el, L.elementCounter)
        elementName == toCamelCase(r.rawName)
    IN [ L EXCEPT
           !.elements = Append(@, Entry(elementName, r.locator)),
           !.interactionMethods = Append(@, Method("click", elementName)),
           !.valueGetters = Append(@, Method("getText", elementName)),
           !.records = Append(@, Classified(el, r.locator, r.rawName, elementName)),
           !.elementCounter = @ + 1 ]

InputLocator_index(el, counter) ==
    LET type == TypeOrText(el)
    IN IF el.testid # << >> THEN Resolved(GetByAttr("data-testid", el.testid), W_input \o SP \o el.testid)
       ELSE IF el.id # << >> THEN Resolved(GetById(el.id), W_input \o SP \o el.id)
       ELSE IF el.name # << >> THEN Resolved(GetByTagAttr("input", "name", el.name), W_input \o SP \o el.name)
       ELSE IF el.placeholder # << >>
            THEN Resolved(GetByTagAttr("input", "placeholder", el.placeholder), W_input \o SP \o el.placeholder)
       ELSE Resolved(GetNthOfType(type, counter - 1),
                     W_input \o SP \o type \o SP \o NumToStr(counter))

\* the interaction methods and the accessor of an input of the given type
InputInteractions(type, elementName) ==
    IF type = W_checkbox \/ type = W_radio
    THEN << Method("check", elementName), Method("uncheck", elementName) >>
    ELSE << Method("type", elementName), Method("clear", elementName) >>

InputAccessor(type, elementName) ==
    IF type = W_checkbox \/ type = W_radio
    THEN Method("isChecked", elementName)
    ELSE Method("getValue", elementName)

EachInput_index(i, el, L) ==
    LET type == TypeOrText(el)
        r == InputLocator_index(el, L.elementCounter)
        elementName == toCamelCase(r.rawName)
    IN [ L EXCEPT
           !.elements = Append(@, Entry(elementName, r.locator)),
           !.getters = Append(@, Getter(elementName, elementName)),
           !.interactionMethods = @ \o InputInteractions(type, elementName),
           !.valueGetters = Append(@, InputAccessor(type, elementName)),
           !.elementMeta = Append(@, Meta(type, elementName)),
           !.records = Append(@, Classified(el, r.locator, r.rawName, elementName)),
           !.elementCounter = @ + 1 ]

LinkLocator_index(el, counter) ==
    LET text == Trim(el.text)
    IN IF el.testid # << >> THEN Resolved(GetByAttr("data-testid", el.testid), W_link \o SP \o el.testid)
       ELSE IF el.id # << >> THEN Resolved(GetById(el.id), W_link \o SP \o el.id)
       ELSE IF text # << >> THEN Resolved(ContainsText("a", text), W_link \o SP \o text)
       ELSE IF el.href # << >> THEN Resolved(GetByTagAttr("a", "href", el.href), W_link \o SP \o el.href)
       ELSE Resolved(GetNth("a", counter - 1), W_link \o SP \o NumToStr(counter))

EachLink_index(i, el, L) ==
    LET r == LinkLocator_index(el, L.elementCounter)
        elementName == toCamelCase(r.rawName)
    IN [ L EXCEPT
           !.elements = Append(@, Entry(elementName, r.locator)),
           !.getters = Append(@, Getter(elementName, elementName)),
           !.interactionMethods = Append(@, Method("click", elementName)),
           !.valueGetters = Append(@, Method("getText", elementName)),
           !.elementMeta = Append(@, Meta(W_link, elementName)),
           !.records = Append(@, Classified(el, r.locator, r.rawName, elementName)),
           !.elementCounter = @ + 1 ]

SelectLocator_index(el, counter) ==
    IF el.testid # << >> THEN Resolved(GetByAttr("data-testid", el.testid), W_select \o SP \o el.testid)
    ELSE IF el.id # << >> THEN Resolved(GetById(el.id), W_select \o SP \o el.id)
    ELSE IF el.name # << >> THEN Resolved(GetByTagAttr("select", "name", el.name), W_select \o SP \o el.name)
    ELSE Resolved(GetNth("select", counter - 1), W_select \o SP \o NumToStr(counter))

\* EachSelect_index without elements.push: methods that dereference a key
\* the locator map does not have
EachSelect_NoEntry(i, el, L) ==
    LET r == SelectLocator_index(el, L.elementCounter)
        elementName == toCamelCase(r.rawName)
    IN [ L EXCEPT
           !.getters = Append(@, Getter(elementName, elementName)),
           !.interactionMethods = Append(@, Method("select", elementName)),
           !.valueGetters = Append(@, Method("getValue", elementName)),
           !.elementMeta = Append(@, Meta(W_select, elementName)),
           !.records = Append(@, Classified(el, r.locator, r.rawName, elementName)),
           !.elementCounter = @ + 1 ]

EachSelect_index(i, el, L) ==
    LET r == SelectLocator_index(el, L.elementCounter)
        elementName == toCamelCase(r.rawName)
    IN [ L EXCEPT
           !.elements = Append(@, Entry(elementName, r.locator)),
           !.getters = Append(@, Getter(elementName, elementName)),
           !.interactionMethods = Append(@, Method("select", elementName)),
           !.valueGetters = Append(@, Method("getValue", elementName)),
           !.elementMeta = Append(@, Meta(W_select, elementName)),
           !.records = Append(@, Classified(el, r.locator, r.rawName, elementName)),
           !.elementCounter = @ + 1 ]

TextareaLocator_index(el, counter) ==
    IF el.testid # << >> THEN Resolved(GetByAttr("data-testid", el.testid), W_textarea \o SP \o el.testid)
    ELSE IF el.id # << >> THEN Resolved(GetById(el.id), W_textarea \o SP \o el.id)
    ELSE IF el.name # << >> THEN Resolved(GetByTagAttr("textarea", "name", el.name), W_textarea \o SP \o el.name)
    ELSE IF el.placeholder # << >>
         THEN Resolved(GetByTagAttr("textarea", "placeholder", el.placeholder), W_textarea \o SP \o el.placeholder)
    ELSE Resolved(GetNth("textarea", counter - 1), W_textarea \o SP \o NumToStr(counter))

EachTextarea_index(i, el, L) ==
    LET r == TextareaLocator_index(el, L.elementCounter)
        elementName == toCamelCase(r.rawName)
    IN [ L EXCEPT
           !.elements = Append(@, Entry(elementName, r.locator)),
           !.getters = Append(@, Getter(elementName, elementName)),
           !.interactionMethods = @ \o << Method("type", elementName), Method("clear", elementName) >>,
           !.valueGetters = Append(@, Method("getValue", elementName)),
           !.elementMeta = Append(@, Meta(W_textarea, elementName)),
           !.records = Append(@, Classified(el, r.locator, r.rawName, elementName)),
           !.elementCounter = @ + 1 ]

-----------------------------------------------------------------------------
(* src/unnamed/part_000, second module (1.0.21): getLocatorAndRawName and  *)
(* the callbacks that use it.  extra is [type, index]; an option that is   *)
(* not passed is << >>, an index k that is passed is << k >>.              *)

Extra(type, i) == [ type |-> type, index |-> << i >> ]

\* a resolver that takes the name attribute of an element of any category
NameForAnyTag(el, tag, extra) ==
    LET text == Trim(el.text)
        tw == TagWord(tag)
    IN IF el.cy # << >> THEN Resolved(GetByAttr("data-cy", el.cy), tw \o SP \o el.cy)
       ELSE IF el.test # << >> THEN Resolved(GetByAttr("data-test", el.test), tw \o SP \o el.test)
       ELSE IF el.testid # << >> THEN Resolved(GetByAttr("data-testid", el.testid), tw \o SP \o el.testid)
       ELSE IF el.id # << >> THEN Resolved(GetById(el.id), tw \o SP \o el.id)
       ELSE IF el.name # << >>
            THEN Resolved(GetByTagAttr(tag, "name", el.name), tw \o SP \o el.name)
       ELSE IF el.placeholder # << >> /\ tag \in { "input", "textarea" }
            THEN Resolved(GetByTagAttr(tag, "placeholder", el.placeholder), tw \o SP \o el.placeholder)
       ELSE IF text # << >> /\ tag \in { "button", "a" }
            THEN Resolved(ContainsText(tag, text), tw \o SP \o text)
       ELSE IF el.href # << >> /\ tag = "a"
            THEN Resolved(GetByTagAttr("a", "href", el.href), W_link \o SP \o el.href)
       ELSE IF el.class # << >> /\ tag = "button"
            THEN Resolved(GetByClass("button", FirstToken(el.class)), W_button \o SP \o FirstToken(el.class))
       ELSE Resolved(GetNth(tag, extra.index[1]), tw \o SP \o NumToStr(extra.index[1] + 1))

\* a resolver that tests the id before the data-testid
IdBeforeTestId(el, tag, extra) ==
    IF el.id # << >> THEN Resolved(GetById(el.id), TagWord(tag) \o SP \o el.id)
    ELSE IF el.testid # << >> THEN Resolved(GetByAttr("data-testid", el.testid), TagWord(tag) \o SP \o el.testid)
    ELSE Resolved(GetTag(tag), TagWord(tag))

getLocatorAndRawName(el, tag, extra) ==
    LET text == Trim(el.text)
        type == IF extra.type # << >> THEN extra.type ELSE el.type
        index == extra.index
        tw == TagWord(tag)
    IN IF el.cy # << >> THEN Resolved(GetByAttr("data-cy", el.cy), tw \o SP \o el.cy)
       ELSE IF el.test # << >> THEN Resolved(GetByAttr("data-test", el.test), tw \o SP \o el.test)
       ELSE IF el.testid # << >> THEN Resolved(GetByAttr("data-testid", el.testid), tw \o SP \o el.testid)
       ELSE IF el.id # << >> THEN Resolved(GetById(el.id), tw \o SP \o el.id)
       ELSE IF el.name # << >> /\ tag \in { "input", "select", "textarea" }
            THEN Resolved(GetByTagAttr(tag, "name", el.name), tw \o SP \o el.name)
       ELSE IF el.placeholder # << >> /\ tag \in { "input", "textarea" }
            THEN Resolved(GetByTagAttr(tag, "placeholder", el.placeholder), tw \o SP \o el.placeholder)
       ELSE IF text # << >> /\ tag = "button"
            THEN Resolved(ContainsText("button", text), W_button \o SP \o text)
       ELSE IF text # << >> /\ tag = "a"
            THEN Resolved(ContainsText("a", text), W_link \o SP \o text)
       ELSE IF el.href # << >> /\ tag = "a"
            THEN Resolved(GetByTagAttr("a", "href", el.href), W_link \o SP \o el.href)
       ELSE IF el.class # << >> /\ tag = "button"
            THEN Resolved(GetByClass("button", FirstToken(el.class)), W_button \o SP \o FirstToken(el.class))
       ELSE IF type # << >> /\ tag = "input" /\ index # << >>
            THEN Resolved(GetNthOfType(type, index[1]), W_input \o SP \o type \o SP \o NumToStr(index[1] + 1))
       ELSE IF index # << >>
            THEN Resolved(GetNth(tag, index[1]), tw \o SP \o NumToStr(index[1] + 1))
       ELSE Resolved(GetTag(tag), tw)

EachButton_generic(i, el, L) ==
    LET r == getLocatorAndRawName(el, "button", Extra(<< >>, i))
        elementName == toCamelCase(r.rawName)
    IN [ L EXCEPT
           !.elements = Append(@, Entry(elementName, r.locator)),
           !.interactionMethods = Append(@, Method("click", elementName)),
           !.valueGetters = Append(@, Method("getText", elementName)),
           !.records = Append(@, Classified(el, r.locator, r.rawName, elementName)),
           !.elementCounter = @ + 1 ]

EachInput_generic(i, el, L) ==
    LET type == TypeOrText(el)
        r == getLocatorAndRawName(el, "input", Extra(type, i))
        elementName == toCamelCase(r.rawName)
    IN [ L EXCEPT
           !.elements = Append(@, Entry(elementName, r.locator)),
           !.getters = Append(@, Getter(elementName, elementName)),
           !.interactionMethods = @ \o InputInteractions(type, elementName),
           !.valueGetters = Append(@, InputAccessor(type, elementName)),
           !.records = Append(@, Classified(el, r.locator, r.rawName, elementName)),
           !.elementCounter = @ + 1 ]

\* The callbacks for a, select and textarea destructure { locator, rawName }
\* and then read elementName, which no enclosing scope declares: evaluating
\* the first template literal throws a ReferenceError before anything is
\* pushed (the file is an ES module, hence strict).  The record keeps what
\* getLocatorAndRawName resolved; no elementName was ever computed.
EachLink_generic(i, el, L) ==
    LET r == getLocatorAndRawName(el, "a", Extra(<< >>, i))
    IN [ L EXCEPT !.records = Append(@, Classified(el, r.locator, r.rawName, << >>)),
                  !.error = "ReferenceError" ]

EachSelect_generic(i, el, L) ==
    LET r == getLocatorAndRawName(el, "select", Extra(<< >>, i))
    IN [ L EXCEPT !.records = Append(@, Classified(el, r.locator, r.rawName, << >>)),
                  !.error = "ReferenceError" ]

EachTextarea_generic(i, el, L) ==
    LET r == getLocatorAndRawName(el, "textarea", Extra(<< >>, i))
    IN [ L EXCEPT !.records = Append(@, Classified(el, r.locator, r.rawName, << >>)),
                  !.error = "ReferenceError" ]

-----------------------------------------------------------------------------
(* src/unnamed/part_001 (1.0.0): the callbacks build elementName directly. *)

Named(locator, elementName) == [ locator |-> locator, elementName |-> elementName ]

ButtonName_legacy(el, counter) ==
    LET text == Trim(el.text)
    IN IF el.testid # << >> THEN Named(GetByAttr("data-testid", el.testid), W_button \o US \o Underscored(el.testid))
       ELSE IF el.id # << >> THEN Named(GetById(el.id), W_button \o US \o el.id)
       ELSE IF text # << >> THEN Named(ContainsText("button", text), W_button \o US \o LowerAll(Underscored(text)))
       ELSE IF el.class # << >>
            THEN Named(GetByClass("button", FirstToken(el.class)), W_button \o US \o FirstToken(el.class))
       ELSE Named(GetNth("button", counter - 1), W_button \o US \o NumToStr(counter))

EachButton_legacy(i, el, L) ==
    LET r == ButtonName_legacy(el, L.elementCounter)
        elementName == r.elementName
    IN [ L EXCEPT
           !.elements = Append(@, Entry(elementName, r.locator)),
           !.getters = Append(@, Getter(cap(elementName), elementName)),
           !.interactionMethods = Append(@, Method("click", elementName)),
           !.valueGetters = Append(@, Method("getText", elementName)),
           !.elementMeta = Append(@, Meta(W_button, elementName)),
           !.records = Append(@, Classified(el, r.locator, elementName, elementName)),
           !.elementCounter = @ + 1 ]

InputName_legacy(el, counter) ==
    LET type == TypeOrText(el)
    IN IF el.testid # << >> THEN Named(GetByAttr("data-testid", el.testid), W_input \o US \o Underscored(el.testid))
       ELSE IF el.id # << >> THEN Named(GetById(el.id), W_input \o US \o el.id)
       ELSE IF el.name # << >> THEN Named(GetByTagAttr("input", "name", el.name), W_input \o US \o el.name)
       ELSE IF el.placeholder # << >>
            THEN Named(GetByTagAttr("input", "placeholder", el.placeholder),
                       W_input \o US \o LowerAll(Underscored(el.placeholder)))
       ELSE Named(GetNthOfType(type, counter - 1), W_input \o US \o type \o US \o NumToStr(counter))

EachInput_legacy(i, el, L) ==
    LET type == TypeOrText(el)
        r == InputName_legacy(el, L.elementCounter)
        elementName == r.elementName
    IN [ L EXCEPT
           !.elements = Append(@, Entry(elementName, r.locator)),
           !.getters = Append(@, Getter(cap(elementName), elementName)),
           !.interactionMethods = @ \o InputInteractions(type, elementName),
           !.valueGetters = Append(@, InputAccessor(type, elementName)),
           !.elementMeta = Append(@, Meta(type, elementName)),
           !.records = Append(@, Classified(el, r.locator, elementName, elementName)),
           !.elementCounter = @ + 1 ]

LinkName_legacy(el, counter) ==
    LET text == Trim(el.text)
    IN IF el.testid # << >> THEN Named(GetByAttr("data-testid", el.testid), W_link \o US \o Underscored(el.testid))
       ELSE IF el.id # << >> THEN Named(GetById(el.id), W_link \o US \o el.id)
       ELSE IF text # << >> THEN Named(ContainsText("a", text), W_link \o US \o LowerAll(Underscored(text)))
       ELSE IF el.href # << >>
            THEN Named(GetByTagAttr("a", "href", el.href), W_link \o US \o LowerAll(Underscored(el.href)))
       ELSE Named(GetNth("a", counter - 1), W_link \o US \o NumToStr(counter))

EachLink_legacy(i, el, L) ==
    LET r == LinkName_legacy(el, L.elementCounter)
        elementName == r.elementName
    IN [ L EXCEPT
           !.elements = Append(@, Entry(elementName, r.locator)),
           !.getters = Append(@, Getter(cap(elementName), elementName)),
           !.interactionMethods = Append(@, Method("click", elementName)),
           !.valueGetters = Append(@, Method("getText", elementName)),
           !.elementMeta = Append(@, Meta(W_link, elementName)),
           !.records = Append(@, Classified(el, r.locator, elementName, elementName)),
           !.elementCounter = @ + 1 ]

SelectName_legacy(el, counter) ==
    IF el.testid # << >> THEN Named(GetByAttr("data-testid", el.testid), W_select \o US \o Underscored(el.testid))
    ELSE IF el.id # << >> THEN Named(GetById(el.id), W_select \o US \o el.id)
    ELSE IF el.name # << >> THEN Named(GetByTagAttr("select", "name", el.name), W_select \o US \o el.name)
    ELSE Named(GetNth("select", counter - 1), W_select \o US \o NumToStr(counter))

EachSelect_legacy(i, el, L) ==
    LET r == SelectName_legacy(el, L.elementCounter)
        elementName == r.elementName
    IN [ L EXCEPT
           !.elements = Append(@, Entry(elementName, r.locator)),
           !.getters = Append(@, Getter(cap(elementName), elementName)),
           !.interactionMethods = Append(@, Method("select", elementName)),
           !.valueGetters = Append(@, Method("getValue", elementName)),
           !.elementMeta = Append(@, Meta(W_select, elementName)),
           !.records = Append(@, Classified(el, r.locator, elementName, elementName)),
           !.elementCounter = @ + 1 ]

TextareaName_legacy(el, counter) ==
    IF el.testid # << >> THEN Named(GetByAttr("data-testid", el.testid), W_textarea \o US \o Underscored(el.testid))
    ELSE IF el.id # << >> THEN Named(GetById(el.id), W_textarea \o US \o el.id)
    ELSE IF el.name # << >> THEN Named(GetByTagAttr("textarea", "name", el.name), W_textarea \o US \o el.name)
    ELSE IF el.placeholder # << >>
         THEN Named(GetByTagAttr("textarea", "placeholder", el.placeholder),
                    W_textarea \o US \o LowerAll(Underscored(el.placeholder)))
    ELSE Named(GetNth("textarea", counter - 1), W_textarea \o US \o NumToStr(counter))

EachTextarea_legacy(i, el, L) ==
    LET r == TextareaName_legacy(el, L.elementCounter)
        elementName == r.elementName
    IN [ L EXCEPT
           !.elements = Append(@, Entry(elementName, r.locator)),
           !.getters = Append(@, Getter(cap(elementName), elementName)),
           !.interactionMethods = @ \o << Method("type", elementName), Method("clear", elementName) >>,
           !.valueGetters = Append(@, Method("getValue", elementName)),
           !.elementMeta = Append(@, Meta(W_textarea, elementName)),
           !.records = Append(@, Classified(el, r.locator, elementName, elementName)),
           !.elementCounter = @ + 1 ]

-----------------------------------------------------------------------------
(* src/unnamed/part_000, first module (1.0.0): the callbacks of part_001   *)
(* with id and name sanitised, and with a positional fallback that calls   *)
(* elementCounter.replace(..) on a number, which throws a TypeError after  *)
(* the locator was assigned and before anything is pushed.                 *)

NamedOk(locator, elementName) == [ locator |-> locator, elementName |-> elementName, error |-> "none" ]
\* elementCounter.replace is not a function
NameThrew(locator) == [ locator |-> locator, elementName |-> << >>, error |-> "TypeError" ]

ButtonName_first(el, counter) ==
    LET text == Trim(el.text)
    IN IF el.testid # << >> THEN NamedOk(GetByAttr("data-testid", el.testid), W_button \o US \o Underscored(el.testid))
       ELSE IF el.id # << >> THEN NamedOk(GetById(el.id), W_button \o US \o Underscored(el.id))
       ELSE IF text # << >> THEN NamedOk(ContainsText("button", text), W_button \o US \o LowerAll(Underscored(text)))
       ELSE IF el.class # << >>
            THEN NamedOk(GetByClass("button", FirstToken(el.class)), W_button \o US \o FirstToken(el.class))
       ELSE NameThrew(GetNth("button", counter - 1))

EachButton_first(i, el, L) ==
    LET r == ButtonName_first(el, L.elementCounter)
        elementName == r.elementName
    IN IF r.error # "none"
       THEN [ L EXCEPT !.records = Append(@, Classified(el, r.locator, << >>, << >>)),
                       !.error = r.error ]
       ELSE [ L EXCEPT
                !.elements = Append(@, Entry(elementName, r.locator)),
                !.getters = Append(@, Getter(cap(elementName), elementName)),
                !.interactionMethods = Append(@, Method("click", elementName)),
                !.valueGetters = Append(@, Method("getText", elementName)),
                !.elementMeta = Append(@, Meta(W_button, elementName)),
                !.records = Append(@, Classified(el, r.locator, elementName, elementName)),
                !.elementCounter = @ + 1 ]

InputName_first(el, counter) ==
    LET type == TypeOrText(el)
    IN IF el.testid # << >> THEN NamedOk(GetByAttr("data-testid", el.testid), W_input \o US \o Underscored(el.testid))
       ELSE IF el.id # << >> THEN NamedOk(GetById(el.id), W_input \o US \o Underscored(el.id))
       ELSE IF el.name # << >> THEN NamedOk(GetByTagAttr("input", "name", el.name), W_input \o US \o Underscored(el.name))
       ELSE IF el.placeholder # << >>
            THEN NamedOk(GetByTagAttr("input", "placeholder", el.placeholder),
                         W_input \o US \o LowerAll(Underscored(el.placeholder)))
       ELSE NameThrew(GetNthOfType(type, counter - 1))

EachInput_first(i, el, L) ==
    LET type == TypeOrText(el)
        r == InputName_first(el, L.elementCounter)
        elementName == r.elementName
    IN IF r.error # "none"
       THEN [ L EXCEPT !.records = Append(@, Classified(el, r.locator, << >>, << >>)),
                       !.error = r.error ]
       ELSE [ L EXCEPT
                !.elements = Append(@, Entry(elementName, r.locator)),
                !.getters = Append(@, Getter(cap(elementName), elementName)),
                !.interactionMethods = @ \o InputInteractions(type, elementName),
                !.valueGetters = Append(@, InputAccessor(type, elementName)),
                !.elementMeta = Append(@, Meta(type, elementName)),
                !.records = Append(@, Classified(el, r.locator, elementName, elementName)),
                !.elementCounter = @ + 1 ]

LinkName_first(el, counter) ==
    LET text == Trim(el.text)
    IN IF el.testid # << >> THEN NamedOk(GetByAttr("data-testid", el.testid), W_link \o US \o Underscored(el.testid))
       ELSE IF el.id # << >> THEN NamedOk(GetById(el.id), W_link \o US \o Underscored(el.id))
       ELSE IF text # << >> THEN NamedOk(ContainsText("a", text), W_link \o US \o LowerAll(Underscored(text)))
       ELSE IF el.href # << >>
            THEN NamedOk(GetByTagAttr("a", "href", el.href), W_link \o US \o LowerAll(Underscored(el.href)))
       ELSE NameThrew(GetNth("a", counter - 1))

EachLink_first(i, el, L) ==
    LET r == LinkName_first(el, L.elementCounter)
        elementName == r.elementName
    IN IF r.error # "none"
       THEN [ L EXCEPT !.records = Append(@, Classified(el, r.locator, << >>, << >>)),
                       !.error = r.error ]
       ELSE [ L EXCEPT
                !.elements = Append(@, Entry(elementName, r.locator)),
                !.getters = Append(@, Getter(cap(elementName), elementName)),
                !.interactionMethods = Append(@, Method("click", elementName)),
                !.valueGetters = Append(@, Method("getText", elementName)),
                !.elementMeta = Append(@, Meta(W_link, elementName)),
                !.records = Append(@, Classified(el, r.locator, elementName, elementName)),
                !.elementCounter = @ + 1 ]

SelectName_first(el, counter) ==
    IF el.testid # << >> THEN NamedOk(GetByAttr("data-testid", el.testid), W_select \o US \o Underscored(el.testid))
    ELSE IF el.id # << >> THEN NamedOk(GetById(el.id), W_select \o US \o Underscored(el.id))
    ELSE IF el.name # << >> THEN NamedOk(GetByTagAttr("select", "name", el.name), W_select \o US \o Underscored(el.name))
    ELSE NameThrew(GetNth("select", counter - 1))

EachSelect_first(i, el, L) ==
    LET r == SelectName_first(el, L.elementCounter)
        elementName == r.elementName
    IN IF r.error # "none"
       THEN [ L EXCEPT !.records = Append(@, Classified(el, r.locator, << >>, << >>)),
                       !.error = r.error ]
       ELSE [ L EXCEPT
                !.elements = Append(@, Entry(elementName, r.locator)),
                !.getters = Append(@, Getter(cap(elementName), elementName)),
                !.interactionMethods = Append(@, Method("select", elementName)),
                !.valueGetters = Append(@, Method("getValue", elementName)),
                !.elementMeta = Append(@, Meta(W_select, elementName)),
                !.records = Append(@, Classified(el, r.locator, elementName, elementName)),
                !.elementCounter = @ + 1 ]

TextareaName_first(el, counter) ==
    IF el.testid # << >> THEN NamedOk(GetByAttr("data-testid", el.testid), W_textarea \o US \o Underscored(el.testid))
    ELSE IF el.id # << >> THEN NamedOk(GetById(el.id), W_textarea \o US \o Underscored(el.id))
    ELSE IF el.name # << >> THEN NamedOk(GetByTagAttr("textarea", "name", el.name), W_textarea \o US \o Underscored(el.name))
    ELSE IF el.placeholder # << >>
         THEN NamedOk(GetByTagAttr("textarea", "placeholder", el.placeholder),
                      W_textarea \o US \o LowerAll(Underscored(el.placeholder)))
    ELSE NameThrew(GetNth("textarea", counter - 1))

EachTextarea_first(i, el, L) ==
    LET r == TextareaName_first(el, L.elementCounter)
        elementName == r.elementName
    IN IF r.error # "none"
       THEN [ L EXCEPT !.records = Append(@, Classified(el, r.locator, << >>, << >>)),
                       !.error = r.error ]
       ELSE [ L EXCEPT
                !.elements = Append(@, Entry(elementName, r.locator)),
                !.getters = Append(@, Getter(cap(elementName), elementName)),
                !.interactionMethods = @ \o << Method("type", elementName), Method("clear", elementName) >>,
                !.valueGetters = Append(@, Method("getValue", elementName)),
                !.elementMeta = Append(@, Meta(W_textarea, elementName)),
                !.records = Append(@, Classified(el, r.locator, elementName, elementName)),
                !.elementCounter = @ + 1 ]

-----------------------------------------------------------------------------
(* Feature and class names.                                                *)

\* name.replace(/[^a-z0-9]+/g, '_'): every run of other characters becomes one '_'
IsLowerAlnum(c) == c \in LowerAlnumSet
RECURSIVE DropOthers(_)
DropOthers(s) == IF s # << >> /\ ~ IsLowerAlnum(Head(s)) THEN DropOthers(Tail(s)) ELSE s
RECURSIVE CollapseRuns(_)
CollapseRuns(s) ==
    IF s = << >> THEN << >>
    ELSE IF IsLowerAlnum(Head(s)) THEN << Head(s) >> \o CollapseRuns(Tail(s))
         ELSE US \o CollapseRuns(DropOthers(s))

\* .replace(/^_+|_+$/g, '')
RECURSIVE StripLeft(_)
StripLeft(s) == IF s # << >> /\ Head(s) = "_" THEN StripLeft(Tail(s)) ELSE s
RECURSIVE StripRight(_)
StripRight(s) == IF s # << >> /\ s[Len(s)] = "_" THEN StripRight(SubSeq(s, 1, Len(s) - 1)) ELSE s

sanitizeFeatureName(name) == StripRight(StripLeft(CollapseRuns(LowerAll(name))))

Keywords == << W_login, W_register,
               << "s","i","g","n","u","p" >>, << "s","i","g","n","i","n" >>,
               << "u","s","e","r" >>, << "p","r","o","f","i","l","e" >>,
               << "d","a","s","h","b","o","a","r","d" >>, << "s","e","t","t","i","n","g","s" >>,
               << "a","d","m","i","n" >>, << "a","c","c","o","u","n","t" >>,
               << "r","e","s","e","t" >>, << "f","o","r","g","o","t" >>, W_password,
               << "c","o","n","t","a","c","t" >>, << "a","b","o","u","t" >>,
               << "h","o","m","e" >> >>

Value(v) == [ error |-> "none", value |-> v ]
Throws(e) == [ error |-> e, value |-> << >> ]

\* the first (part, keyword) pair, parts outermost, with the keyword inside the part
FirstKeywordIn(parts) ==
    LET hits == { << i, k >> \in (DOMAIN parts) \X (DOMAIN Keywords) :
                    Includes(LowerAll(parts[i]), Keywords[k]) }
        first == CHOOSE h \in hits :
                    \A g \in hits : h[1] < g[1] \/ (h[1] = g[1] /\ h[2] <= g[2])
    IN IF hits = { } THEN << >> ELSE Keywords[first[2]]

\* the text of the first legend inside a form, trimmed
FirstLegend(forms) ==
    LET with == { i \in DOMAIN forms : forms[i].legend # << >> }
    IN IF with = { } THEN << >>
       ELSE Trim(forms[CHOOSE i \in with : \A j \in with : i <= j].legend)

getFeatureName(d, u) ==
    LET name == IF d.forms = << >> THEN << >>
                ELSE IF d.forms[1].name # << >> THEN d.forms[1].name ELSE d.forms[1].id
        legend == FirstLegend(d.forms)
        h1 == Trim(d.h1)
        h2 == Trim(d.h2)
        title == Trim(d.title)
        inPath == FirstKeywordIn(u.path)
        inHost == FirstKeywordIn(<< u.hostname >>)
    IN IF name # << >> THEN Value(sanitizeFeatureName(name))
       ELSE IF legend # << >> THEN Value(sanitizeFeatureName(legend))
       ELSE IF h1 # << >> THEN Value(sanitizeFeatureName(h1))
       ELSE IF h2 # << >> THEN Value(sanitizeFeatureName(h2))
       ELSE IF title # << >> THEN Value(sanitizeFeatureName(title))
       ELSE IF ~ u.wellFormed THEN Throws("TypeError")
       ELSE IF inPath # << >> THEN Value(inPath)
       ELSE IF inHost # << >> THEN Value(inHost)
       ELSE IF u.path # << >> THEN Value(sanitizeFeatureName(u.path[1]))
       ELSE Value(W_page)

\* customFeatureName || getFeatureName($, url)
FeatureNameOf(custom, d, u) == IF custom # << >> THEN Value(custom) ELSE getFeatureName(d, u)

\* featureName.charAt(0).toUpperCase() + featureName.slice(1) + 'Page'
ClassNameOf(feature) == cap(feature) \o W_Page

-----------------------------------------------------------------------------
(* src/unnamed/part_001: workflow inference and the workflow methods.      *)

RECURSIVE Concat(_)
Concat(ss) == IF ss = << >> THEN << >> ELSE Head(ss) \o Concat(Tail(ss))

Inputs(d) == Select(d.nodes, "input")

\* a login test that looks at the name attribute only
LoginByNameOnly(d) ==
    /\ Len(d.forms) > 0
    /\ \E i \in DOMAIN Inputs(d) : Includes(Inputs(d)[i].name, W_password)

\* $('form').length > 0 && ($('input[type="password"]').length > 0 || $('input[name*="password"]').length > 0)
hasLoginForm(d) ==
    /\ Len(d.forms) > 0
    /\ \/ \E i \in DOMAIN Inputs(d) : Inputs(d)[i].type = W_password
       \/ \E i \in DOMAIN Inputs(d) : Includes(Inputs(d)[i].name, W_password)

\* $('input[type="search"]').length > 0 || $('input[placeholder*="search"]').length > 0
hasSearchForm(d) ==
    \/ \E i \in DOMAIN Inputs(d) : Inputs(d)[i].type = W_search
    \/ \E i \in DOMAIN Inputs(d) : Includes(Inputs(d)[i].placeholder, W_search)

\* $('button[type="submit"]').length > 0 || $('input[type="submit"]').length > 0
hasSubmitButton(d) ==
    \E i \in DOMAIN d.nodes : d.nodes[i].tag \in { "button", "input" } /\ d.nodes[i].type = W_submit

\* $(f).text(): the legend, the other text of the form and the text of its descendants
FormText(d, k) ==
    d.forms[k].legend \o d.forms[k].label
      \o Concat([ i \in DOMAIN d.nodes |-> IF d.nodes[i].form = k THEN d.nodes[i].text ELSE << >> ])

RegistrationWords == { W_register, << "s","i","g","n","u","p" >>,
                       << "c","r","e","a","t","e"," ","a","c","c","o","u","n","t" >>,
                       << "s","i","g","n"," ","u","p" >> }

hasRegistrationForm(d) ==
    \E k \in DOMAIN d.forms : \E w \in RegistrationWords : Includes(LowerAll(FormText(d, k)), w)

Flags(d) == [ hasLoginForm |-> hasLoginForm(d), hasSearchForm |-> hasSearchForm(d),
              hasSubmitButton |-> hasSubmitButton(d), hasRegistrationForm |-> hasRegistrationForm(d) ]

NoFlags == [ hasLoginForm |-> FALSE, hasSearchForm |-> FALSE,
             hasSubmitButton |-> FALSE, hasRegistrationForm |-> FALSE ]

\* a workflow method of the class: its name, its parameters, and the hostname it embeds
Workflow(name, params) == [ name |-> name, params |-> params, host |-> << >> ]

\* the block pushed under "Add common workflow methods"
CommonWorkflowMethods(u) ==
    << Workflow("navigateToHome", << >>),
       Workflow("submitForm", << >>),
       Workflow("waitForPageLoad", << >>),
       [ name |-> "verifyPageLoaded", params |-> << >>, host |-> u.hostname ] >>

WorkflowMethods_legacy(f, u) ==
    (IF f.hasLoginForm THEN << Workflow("login", << "username", "password" >>) >> ELSE << >>)
    \o (IF f.hasSearchForm THEN << Workflow("search", << "query" >>) >> ELSE << >>)
    \o (IF f.hasRegistrationForm THEN << Workflow("register", << "user", "email", "password" >>) >> ELSE << >>)
    \o CommonWorkflowMethods(u)

\* elementMeta.reduce((acc, m) => { acc[m.elementName] = m.type; return acc }, {})
metaMap(meta) ==
    [ n \in { meta[i].elementName : i \in DOMAIN meta } |->
        meta[CHOOSE i \in DOMAIN meta :
               meta[i].elementName = n /\ \A j \in DOMAIN meta : meta[j].elementName = n => j <= i].type ]

\* the class source: the parts the template of classCode joins
ClassCode(cn, els, meta, gs, vgs, ims, wms) ==
    [ className |-> cn, elements |-> els, meta |-> meta, getters |-> gs,
      valueGetters |-> vgs, interactionMethods |-> ims, workflowMethods |-> wms ]

\* what a run hands back: the returned object, or the error it threw
Returned(code, cn, fn, meta) ==
    [ status |-> "returned", error |-> "none", classCode |-> code,
      className |-> cn, featureName |-> fn, elementMeta |-> meta ]
Thrown(e) ==
    [ status |-> "threw", error |-> e, classCode |-> << >>,
      className |-> << >>, featureName |-> << >>, elementMeta |-> << >> ]

-----------------------------------------------------------------------------
(* src/unnamed/part_001: generateCypressTests.                             *)

\* page.<verb>${cap(elementName)}(..)
Call(verb, elementName) == [ verb |-> verb, name |-> cap(elementName) ]

\* one it(..) block: what it is about and the page-object calls in its body
It(kind, elementName, calls) == [ kind |-> kind, elementName |-> elementName, calls |-> calls ]

IsBoolean(type) == type = W_checkbox \/ type = W_radio

\* the element-level tests of one { type, elementName }
ElementTestsOf(m) ==
    IF m.type = W_button \/ m.type = W_link
    THEN << It("click", m.elementName, << Call("click", m.elementName) >>),
            It("get text", m.elementName, << Call("getText", m.elementName) >>) >>
    ELSE IF IsBoolean(m.type)
    THEN << It("check", m.elementName,
               << Call("check", m.elementName), Call("isChecked", m.elementName) >>),
            It("uncheck", m.elementName, << Call("uncheck", m.elementName) >>) >>
    ELSE IF m.type = W_select \/ m.type = W_textarea \/ m.type = W_input
    THEN << It("type", m.elementName,
               << Call("type", m.elementName), Call("getValue", m.elementName) >>),
            It("clear", m.elementName,
               << Call("type", m.elementName), Call("clear", m.elementName),
                  Call("getValue", m.elementName) >>) >>
    ELSE << >>

ElementTests(meta) == Concat([ i \in DOMAIN meta |-> ElementTestsOf(meta[i]) ])

\* a || b || c || d on attribute values
Or4(a, b, c, d) == IF a # << >> THEN a ELSE IF b # << >> THEN b ELSE IF c # << >> THEN c ELSE d

\* base.replace(/[^a-zA-Z0-9]/g, '_').toLowerCase()
Normalize(base) == LowerAll(Underscored(base))

\* the base identifier re-derived for a field of a form
FieldBase(el) ==
    Normalize(
        IF el.tag = "input" THEN W_input \o US \o Or4(el.id, el.name, el.testid, TypeOrText(el))
        ELSE IF el.tag = "select" THEN W_select \o US \o Or4(el.id, el.name, el.testid, W_select)
        ELSE W_textarea \o US \o Or4(el.id, el.name, el.testid, W_textarea))

\* the base identifier re-derived for a submit control of a form
SubmitBase(el) ==
    Normalize(
        IF el.tag = "button"
        THEN W_button \o US \o Or4(el.id, Normalize(Trim(el.text)), << >>, W_submit)
        ELSE W_input \o US \o Or4(el.id, el.name, el.testid, W_submit))

\* elementMeta.find(e => e.elementName.startsWith(base)): << >> when none, else << the record >>
FindMeta(meta, base) ==
    LET hits == { i \in DOMAIN meta : StartsWith(meta[i].elementName, base) }
    IN IF hits = { } THEN << >> ELSE << meta[CHOOSE i \in hits : \A j \in hits : i <= j] >>

\* $form.find('input,select,textarea'), in document order
FormFields(d, k) ==
    LET IsField(n) == n.form = k /\ n.tag \in { "input", "select", "textarea" }
    IN SelectSeq(d.nodes, IsField)

\* $form.find('button[type="submit"],input[type="submit"]'), in document order
FormSubmits(d, k) ==
    LET IsSubmit(n) == n.form = k /\ n.tag \in { "button", "input" } /\ n.type = W_submit
    IN SelectSeq(d.nodes, IsSubmit)

\* fields: the records matched for the fields of the k-th form
Fields(d, k, meta) == Concat([ i \in DOMAIN FormFields(d, k) |-> FindMeta(meta, FieldBase(FormFields(d, k)[i])) ])

\* submitBtn: << >> for null, else << elementName >> of the last control that matched
SubmitBtn(d, k, meta) ==
    LET matches == Concat([ i \in DOMAIN FormSubmits(d, k) |-> FindMeta(meta, SubmitBase(FormSubmits(d, k)[i])) ])
    IN IF matches = << >> THEN << >> ELSE << matches[Len(matches)].elementName >>

\* the statement that fills one field with valid data
Fill(f) == IF IsBoolean(f.type) THEN Call("check", f.elementName) ELSE Call("type", f.elementName)

\* the tests of the k-th form; cap(submitBtn) throws a TypeError when submitBtn is null
FormTestsOf(d, k, meta) ==
    LET fields == Fields(d, k, meta)
        submitBtn == SubmitBtn(d, k, meta)
        click == Call("click", submitBtn[1])
        positive == IF fields # << >> /\ submitBtn # << >>
                    THEN << It("valid data", << >>, [ i \in DOMAIN fields |-> Fill(fields[i]) ] \o << click >>) >>
                    ELSE << >>
        Others(f) == LET Other(ff) == ff.elementName # f.elementName IN SelectSeq(fields, Other)
        negative == [ i \in DOMAIN fields |->
                        IF IsBoolean(fields[i].type)
                        THEN It("not checked", fields[i].elementName, << click >>)
                        ELSE It("empty", fields[i].elementName,
                                [ j \in DOMAIN Others(fields[i]) |-> Fill(Others(fields[i])[j]) ] \o << click >>) ]
        edge == Concat([ i \in DOMAIN fields |->
                        IF IsBoolean(fields[i].type) THEN << >>
                        ELSE << It("long input", fields[i].elementName,
                                   << Call("type", fields[i].elementName), click >>),
                                It("special characters", fields[i].elementName,
                                   << Call("type", fields[i].elementName), click >>) >> ])
    IN IF fields # << >> /\ submitBtn = << >>
       THEN Throws("TypeError")
       ELSE Value(positive \o negative \o edge)

\* /<word>\s*\(/ on one piece of text
RECURSIVE SpacesThenParen(_, _)
SpacesThenParen(s, i) ==
    IF i > Len(s) THEN FALSE
    ELSE IF s[i] = "(" THEN TRUE
    ELSE IF IsSpace(s[i]) THEN SpacesThenParen(s, i + 1)
    ELSE FALSE

MatchesCall(s, word) ==
    \E i \in 1..(Len(s) - Len(word) + 1) :
        SubSeq(s, i, i + Len(word) - 1) = word /\ SpacesThenParen(s, i + Len(word))

PAREN == << "(" >>

\* The pieces of the class source in which /<word>\s*\(/ can match: an
\* interpolated name that the template follows with "(", an interpolated
\* value inside quotes, and the text of an emitted workflow method.
CodePieces(code) ==
    { code.className }
    \cup { code.elements[i].key : i \in DOMAIN code.elements }
    \cup { code.elements[i].locator.val : i \in DOMAIN code.elements }
    \cup { n : n \in DOMAIN code.meta }
    \cup { code.meta[n] : n \in DOMAIN code.meta }
    \cup { code.getters[i].name \o PAREN : i \in DOMAIN code.getters }
    \cup { code.getters[i].ref \o PAREN : i \in DOMAIN code.getters }
    \cup { code.valueGetters[i].name \o PAREN : i \in DOMAIN code.valueGetters }
    \cup { code.valueGetters[i].ref \o PAREN : i \in DOMAIN code.valueGetters }
    \cup { code.interactionMethods[i].name \o PAREN : i \in DOMAIN code.interactionMethods }
    \cup { code.interactionMethods[i].ref \o PAREN : i \in DOMAIN code.interactionMethods }
    \cup { w.host : w \in Range(code.workflowMethods) }
    \cup { (IF w.name = "login" THEN W_login ELSE IF w.name = "search" THEN W_search
            ELSE IF w.name = "register" THEN W_register ELSE << >>) \o PAREN
           : w \in Range(code.workflowMethods) }

RegexTest(code, word) == \E piece \in CodePieces(code) : MatchesCall(piece, word)

\* a describe(..) group of workflow tests: its title and the cases it holds
Describe(title, cases) == [ title |-> title, cases |-> cases ]

WorkflowTests(code) ==
    (IF RegexTest(code, W_login)
     THEN << Describe("Login Workflow",
                << "should login with valid credentials", "should show error with invalid credentials",
                   "should show error with empty username", "should show error with empty password" >>) >>
     ELSE << >>)
    \o (IF RegexTest(code, W_search)
        THEN << Describe("Search Workflow",
                   << "should search with valid query", "should handle empty search query" >>) >>
        ELSE << >>)
    \o (IF RegexTest(code, W_register)
        THEN << Describe("Register Workflow",
                   << "should register with valid data", "should show error with invalid data" >>) >>
        ELSE << >>)

\* the first form whose tests throw, 0 when none does
FirstThrowingForm(d, meta) ==
    LET bad == { k \in DOMAIN d.forms : FormTestsOf(d, k, meta).error # "none" }
    IN IF bad = { } THEN 0 ELSE CHOOSE k \in bad : \A j \in bad : k <= j

generateCypressTests(d, pageObjectMeta, u) ==
    IF FirstThrowingForm(d, pageObjectMeta.elementMeta) # 0
    THEN [ status |-> "threw", error |-> "TypeError", className |-> << >>, featureName |-> << >>,
           elementTests |-> << >>, formTests |-> << >>, workflowTests |-> << >> ]
    ELSE [ status |-> "returned", error |-> "none",
           className |-> pageObjectMeta.className, featureName |-> pageObjectMeta.featureName,
           elementTests |-> ElementTests(pageObjectMeta.elementMeta),
           formTests |-> Concat([ k \in DOMAIN d.forms |-> FormTestsOf(d, k, pageObjectMeta.elementMeta).value ]),
           workflowTests |-> WorkflowTests(pageObjectMeta.classCode) ]

-----------------------------------------------------------------------------
(* The documents and requests the generator is run on.                     *)

V_user  == << "u","s","e","r" >>
V_main  == << "m","a","i","n" >>
V_go    == << "g","o" >>
V_LogIn == << "L","o","g"," ","i","n" >>
V_pad   == << " ","O","K"," " >>
V_shop  == << "s","h","o","p",".","t","e","s","t" >>
V_cart  == << "c","a","r","t" >>

\* <button></button>
BareButton == Node
\* <button type="submit">Log in</button>, inside the first form
SubmitButton == [ Node EXCEPT !.type = W_submit, !.text = V_LogIn, !.form = 1 ]
\* <button data-testid="user" id="main" class="go"> OK </button>
TestIdButton == [ Node EXCEPT !.testid = V_user, !.id = V_main, !.class = V_go, !.text = V_pad ]
\* <button data-cy="go" data-testid="user" id="main"> OK </button>
CyButton == [ Node EXCEPT !.cy = V_go, !.testid = V_user, !.id = V_main, !.text = V_pad ]
\* <input data-testid="user" type="text">, inside the first form
UserInput == [ Node EXCEPT !.tag = "input", !.type = W_text, !.testid = V_user, !.form = 1 ]
\* <input type="password">, inside the first form
PasswordInput == [ Node EXCEPT !.tag = "input", !.type = W_password, !.form = 1 ]
\* <input type="password">, outside every form
LoosePasswordInput == [ Node EXCEPT !.tag = "input", !.type = W_password ]
\* <input>
BareInput == [ Node EXCEPT !.tag = "input" ]
\* <input type="checkbox" data-test="go" id="main">
TestCheckbox == [ Node EXCEPT !.tag = "input", !.type = W_checkbox, !.test = V_go, !.id = V_main ]
\* <input data-testid="user" id="main" name="password">
TestIdInput == [ Node EXCEPT !.tag = "input", !.testid = V_user, !.id = V_main, !.name = W_password ]
\* <a></a>
BareLink == [ Node EXCEPT !.tag = "a" ]
\* <a data-testid="user" id="main" href="go">Log in</a>
TestIdLink == [ Node EXCEPT !.tag = "a", !.testid = V_user, !.id = V_main, !.href = V_go, !.text = V_LogIn ]
\* <select></select>
BareSelect == [ Node EXCEPT !.tag = "select" ]
\* <select data-testid="user" id="main" name="go"></select>
TestIdSelect == [ Node EXCEPT !.tag = "select", !.testid = V_user, !.id = V_main, !.name = V_go ]
\* <textarea></textarea>
BareTextarea == [ Node EXCEPT !.tag = "textarea" ]
\* <textarea data-testid="user" id="main" placeholder="go"></textarea>
TestIdTextarea == [ Node EXCEPT !.tag = "textarea", !.testid = V_user, !.id = V_main, !.placeholder = V_go ]

NodePool == { BareButton, SubmitButton, TestIdButton, CyButton,
              UserInput, PasswordInput, LoosePasswordInput, BareInput, TestCheckbox, TestIdInput,
              BareLink, TestIdLink, BareSelect, TestIdSelect, BareTextarea, TestIdTextarea }

\* <form> without name, id, legend or text of its own
PlainForm == [ name |-> << >>, id |-> << >>, legend |-> << >>, label |-> << >> ]

FormLayouts == { << >>, << PlainForm >> }

SeqsUpTo(S, n) == UNION { [ 1..k -> S ] : k \in 0..n }

Document(forms, nodes) == [ forms |-> forms, nodes |-> nodes, h1 |-> << >>, h2 |-> << >>, title |-> << >> ]

NodesFor(fs) == { s \in SeqsUpTo(NodePool, MaxElems) : \A i \in DOMAIN s : s[i].form <= Len(fs) }

GeneralDocs == UNION { { Document(fs, ns) : ns \in NodesFor(fs) } : fs \in FormLayouts }

\* the login form; two buttons before an input; five buttons without any attribute
LoginDoc == Document(<< PlainForm >>, << UserInput, PasswordInput, SubmitButton >>)
ButtonsThenInputDoc == Document(<< >>, << BareButton, BareButton, BareInput >>)
FiveButtonsDoc == Document(<< >>, << BareButton, BareButton, BareButton, BareButton, BareButton >>)

\* <button id="login"></button>: no form, no password input
LoginButtonDoc == Document(<< >>, << [ Node EXCEPT !.id = W_login ] >>)
\* <form>Sign up</form><input type="search"><input type="password">: all three workflows
AllFlowsDoc ==
    Document(<< [ PlainForm EXCEPT !.label = << "S","i","g","n"," ","u","p" >> ] >>,
             << [ Node EXCEPT !.tag = "input", !.type = W_search ], LoosePasswordInput >>)

\* <form><input data-testid="user" type="text"><input type="checkbox" id="go">
\* <button type="submit">Log in</button></form>
AgreeCheckbox == [ Node EXCEPT !.tag = "input", !.type = W_checkbox, !.id = V_go, !.form = 1 ]
CheckboxFormDoc == Document(<< PlainForm >>, << UserInput, AgreeCheckbox, SubmitButton >>)

\* elements without data-cy, data-test, data-testid and id:
\* <button name="user" class="go"> OK </button>, <a href="go">Log in</a>,
\* <select placeholder="go">
NamedButton == [ Node EXCEPT !.name = V_user, !.text = V_pad, !.class = V_go ]
TextHrefLink == [ Node EXCEPT !.tag = "a", !.text = V_LogIn, !.href = V_go ]
PlaceholderSelect == [ Node EXCEPT !.tag = "select", !.placeholder = V_go ]
\* <input name="user" placeholder="go">, <a name="user" href="go"></a>,
\* <button name="user" class="go main"></button>
NamedInput == [ Node EXCEPT !.tag = "input", !.name = V_user, !.placeholder = V_go ]
HrefLink == [ Node EXCEPT !.tag = "a", !.name = V_user, !.href = V_go ]
ClassButton == [ Node EXCEPT !.name = V_user, !.class = << "g","o"," ","m","a","i","n" >> ]
\* <select name="user" placeholder="go">, <textarea placeholder="go">,
\* <textarea name="user" placeholder="go">
NamedSelect == [ Node EXCEPT !.tag = "select", !.name = V_user, !.placeholder = V_go ]
PlaceholderTextarea == [ Node EXCEPT !.tag = "textarea", !.placeholder = V_go ]
NamedTextarea == [ Node EXCEPT !.tag = "textarea", !.name = V_user, !.placeholder = V_go ]

FallbackDocs ==
    { Document(<< >>, << NamedButton, TextHrefLink, PlaceholderSelect >>),
      Document(<< >>, << NamedInput, HrefLink, ClassButton >>),
      Document(<< >>, << NamedSelect, PlaceholderTextarea, NamedTextarea >>) }

\* <a href="/c.js"></a>
V_path == << "/","c",".","j","s" >>
PathLink == [ Node EXCEPT !.tag = "a", !.href = V_path ]
PathLinkDoc == Document(<< >>, << PathLink >>)

ScenarioDocs == { LoginDoc, ButtonsThenInputDoc, FiveButtonsDoc, LoginButtonDoc, AllFlowsDoc,
                  CheckboxFormDoc, PathLinkDoc } \cup FallbackDocs

Docs == GeneralDocs \cup ScenarioDocs

\* https://shop.test/
ShopUrl == [ wellFormed |-> TRUE, hostname |-> V_shop, path |-> << >> ]
\* https://shop.test/my-account/Orders: the first path segment contains a keyword
AccountUrl == [ wellFormed |-> TRUE, hostname |-> V_shop,
                path |-> << << "m","y","-","a","c","c","o","u","n","t" >>, << "O","r","d","e","r","s" >> >> ]
\* https://shop.test/Cart-2/home: a keyword in the second segment only
CartUrl == [ wellFormed |-> TRUE, hostname |-> V_shop,
             path |-> << << "C","a","r","t","-","2" >>, << "h","o","m","e" >> >> ]
\* https://shop.test/Cart-2: no keyword anywhere
PlainPathUrl == [ wellFormed |-> TRUE, hostname |-> V_shop, path |-> << << "C","a","r","t","-","2" >> >> ]
\* https://Admin.shop.test/: a keyword in the hostname (which the URL parser lower-cases)
AdminUrl == [ wellFormed |-> TRUE, hostname |-> << "a","d","m","i","n","." >> \o V_shop, path |-> << >> ]
\* "shop.test": a string new URL(..) rejects; it has neither hostname nor path
BadUrl == [ wellFormed |-> FALSE, hostname |-> << >>, path |-> << >> ]

Urls == { ShopUrl, AccountUrl, CartUrl, PlainPathUrl, AdminUrl, BadUrl }

V_formName == << "P","a","y"," ","N","o","w" >>
V_formId   == << "f","1" >>
V_legend   == << " ","C","a","r","d"," " >>
V_h1       == << "T","o","p" >>
V_h2       == << "S","u","b" >>
V_title    == << "T"," ","1" >>
V_marks    == << "#","!" >>
V_MyCart   == << "M","y"," ","C","a","r","t" >>

\* the forms a naming document may hold: none, or one with any of name, id, legend
NamingForms ==
    { << >> } \cup { << [ name |-> n, id |-> i, legend |-> l, label |-> << >> ] >> :
                       n \in { << >>, V_formName }, i \in { << >>, V_formId }, l \in { << >>, V_legend } }

\* documents without interactive elements, with any of the sources of a feature name
Headed(forms, h1, h2, title) == [ forms |-> forms, nodes |-> << >>, h1 |-> h1, h2 |-> h2, title |-> title ]

\* <form></form><form name="Pay Now"><legend> Card </legend></form>
TwoFormsDoc ==
    Headed(<< PlainForm, [ name |-> V_formName, id |-> << >>, legend |-> V_legend, label |-> << >> ] >>,
           << >>, << >>, V_title)
\* <h1>#!</h1><title>T 1</title>
MarksDoc == Headed(<< >>, V_marks, << >>, V_title)

NamingDocs ==
    { Headed(fs, h1, h2, t) : fs \in NamingForms, h1 \in { << >>, V_h1 },
                              h2 \in { << >>, V_h2 }, t \in { << >>, V_title } }
    \cup { TwoFormsDoc, MarksDoc }

\* index.js; the second module of part_000; part_001; the first module of part_000
Variants == { "index", "generic", "legacy", "first" }

\* the first module of part_000 is run on the documents with at most one
\* element, on the scenarios and on the naming documents
FirstDocs == { d \in Docs : Len(d.nodes) <= 1 } \cup ScenarioDocs \cup NamingDocs

\* the requests: every document without a page-object name, the scenarios also with one;
\* the naming documents with every URL
Requests ==
    { [ doc |-> d, url |-> ShopUrl, custom |-> << >> ] : d \in Docs }
    \cup { [ doc |-> d, url |-> ShopUrl, custom |-> V_cart ] : d \in ScenarioDocs }
    \cup { [ doc |-> d, url |-> u, custom |-> << >> ] : d \in NamingDocs, u \in Urls }
    \cup { [ doc |-> d, url |-> u, custom |-> c ] :
             d \in { LoginDoc, MarksDoc }, u \in { ShopUrl, BadUrl }, c \in { V_cart, V_MyCart } }

\* the interaction and value methods of a class
MethodsOf(code) ==
    { code.interactionMethods[i] : i \in DOMAIN code.interactionMethods }
    \cup { code.valueGetters[i] : i \in DOMAIN code.valueGetters }

-----------------------------------------------------------------------------
(* A call of a workflow method on an instance of the generated class.  The *)
(* class has the members its source declares: the getters, the value and   *)
(* interaction methods and the workflow methods.  this.<name> is undefined *)
(* for any other name, and calling undefined throws a TypeError.           *)

\* the accessors the workflow templates read from this
A_getInputUsername == << "g","e","t","I","n","p","u","t","U","s","e","r","n","a","m","e" >>
A_getInputEmail == << "g","e","t","I","n","p","u","t","E","m","a","i","l" >>
A_getInputPassword == << "g","e","t","I","n","p","u","t","P","a","s","s","w","o","r","d" >>
A_getButtonSubmit == << "g","e","t","B","u","t","t","o","n","S","u","b","m","i","t" >>
A_getButtonLogin == << "g","e","t","B","u","t","t","o","n","L","o","g","i","n" >>
A_getInputSearch == << "g","e","t","I","n","p","u","t","S","e","a","r","c","h" >>
A_getInputQuery == << "g","e","t","I","n","p","u","t","Q","u","e","r","y" >>
A_getButtonSearch == << "g","e","t","B","u","t","t","o","n","S","e","a","r","c","h" >>
A_getInputUser == << "g","e","t","I","n","p","u","t","U","s","e","r" >>
A_getInputName == << "g","e","t","I","n","p","u","t","N","a","m","e" >>
A_getInputPass == << "g","e","t","I","n","p","u","t","P","a","s","s" >>
A_getButtonRegister == << "g","e","t","B","u","t","t","o","n","R","e","g","i","s","t","e","r" >>
A_getButtonSignup == << "g","e","t","B","u","t","t","o","n","S","i","g","n","u","p" >>
A_getLinkHome == << "g","e","t","L","i","n","k","H","o","m","e" >>
A_getLinkLogo == << "g","e","t","L","i","n","k","L","o","g","o" >>

\* a verb or method name of the templates, spelled out
Spelled(n) ==
    CASE n = "click" -> << "c","l","i","c","k" >>
      [] n = "getText" -> << "g","e","t","T","e","x","t" >>
      [] n = "type" -> << "t","y","p","e" >>
      [] n = "clear" -> << "c","l","e","a","r" >>
      [] n = "getValue" -> << "g","e","t","V","a","l","u","e" >>
      [] n = "check" -> << "c","h","e","c","k" >>
      [] n = "uncheck" -> << "u","n","c","h","e","c","k" >>
      [] n = "isChecked" -> << "i","s","C","h","e","c","k","e","d" >>
      [] n = "select" -> << "s","e","l","e","c","t" >>
      [] n = "login" -> << "l","o","g","i","n" >>
      [] n = "search" -> << "s","e","a","r","c","h" >>
      [] n = "register" -> << "r","e","g","i","s","t","e","r" >>
      [] n = "navigateToHome" -> << "n","a","v","i","g","a","t","e","T","o","H","o","m","e" >>
      [] n = "submitForm" -> << "s","u","b","m","i","t","F","o","r","m" >>
      [] n = "waitForPageLoad" -> << "w","a","i","t","F","o","r","P","a","g","e","L","o","a","d" >>
      [] n = "verifyPageLoaded" -> << "v","e","r","i","f","y","P","a","g","e","L","o","a","d","e","d" >>

\* the names of the members a class declares
MemberNames(code) ==
    { code.getters[i].name : i \in DOMAIN code.getters }
    \cup { Spelled(m.verb) \o m.name : m \in MethodsOf(code) }
    \cup { Spelled(code.workflowMethods[i].name) : i \in DOMAIN code.workflowMethods }

\* the outcome of evaluating one role of a template: the accessor it called,
\* found |-> TRUE when the call returned an element, threw |-> TRUE when the
\* accessor called is not a member
Resolve(found) == [ found |-> found, threw |-> FALSE ]
NotAFunction == [ found |-> FALSE, threw |-> TRUE ]

\* this.a ? this.a() : this.b()
EitherOr(names, a, b) ==
    IF a \in names THEN Resolve(TRUE) ELSE IF b \in names THEN Resolve(TRUE) ELSE NotAFunction
\* this.a()
Always(names, a) == IF a \in names THEN Resolve(TRUE) ELSE NotAFunction
\* this.a ? this.a() : (this.b ? this.b() : .. null)
FirstOrNull(names, as) == Resolve(\E i \in DOMAIN as : as[i] \in names)

\* the roles of a workflow method, in the order its body evaluates them
Roles(names, method) ==
    CASE method = "login" ->
           << EitherOr(names, A_getInputUsername, A_getInputEmail),
              Always(names, A_getInputPassword),
              EitherOr(names, A_getButtonSubmit, A_getButtonLogin) >>
      [] method = "search" ->
           << EitherOr(names, A_getInputSearch, A_getInputQuery),
              EitherOr(names, A_getButtonSearch, A_getButtonSubmit) >>
      [] method = "register" ->
           << FirstOrNull(names, << A_getInputUsername, A_getInputUser, A_getInputName, A_getInputEmail >>),
              FirstOrNull(names, << A_getInputEmail >>),
              FirstOrNull(names, << A_getInputPassword, A_getInputPass >>),
              FirstOrNull(names, << A_getButtonRegister, A_getButtonSignup, A_getButtonSubmit >>) >>
      [] method = "navigateToHome" -> << EitherOr(names, A_getLinkHome, A_getLinkLogo) >>
      [] method = "submitForm" -> << EitherOr(names, A_getButtonSubmit, A_getButtonLogin) >>
      [] OTHER -> << >>

\* page.<method>(..): it throws at the first role whose accessor is not a
\* member; otherwise it acts on the roles it resolved and returns this
Invocation(code, method) ==
    LET roles == Roles(MemberNames(code), method)
    IN IF \E i \in DOMAIN roles : roles[i].threw
       THEN [ method |-> method, status |-> "threw", error |-> "TypeError", acted |-> { } ]
       ELSE [ method |-> method, status |-> "returned", error |-> "none",
              acted |-> { i \in DOMAIN roles : roles[i].found } ]

NoCall == [ method |-> "", status |-> "none", error |-> "none", acted |-> { } ]

-----------------------------------------------------------------------------
(* The state machine: a request is served by one run of                    *)
(* generatePageObjectClass (and, in part_001, generateCypressTests on what *)
(* it returned); the same request may then be served again.                *)

\* before the first run: nothing was generated
InitLocals ==
    /\ pc = "idle"
    /\ run = 0
    /\ featureName = << >>
    /\ className = << >>
    /\ elements = << >>
    /\ getters = << >>
    /\ valueGetters = << >>
    /\ interactionMethods = << >>
    /\ workflowMethods = << >>
    /\ elementCounter = 1
    /\ elementMeta = << >>
    /\ flags = NoFlags
    /\ records = << >>
    /\ results = << >>
    /\ tests = << >>
    /\ invoked = NoCall

\* one request served by the generator alone: no handler, nothing on disk
\* no call of detectWorkspace is followed
NoSearch == [ pc |-> "none", startPath |-> << >>, tree |-> << >>, currentPath |-> << >>,
              workspaceRoot |-> << >> ]

NoServer ==
    /\ handlers = << >>
    /\ files = << >>
    /\ clock = 0
    /\ alone = << >>
    /\ workspace = NoSearch

Init ==
    /\ variant \in Variants
    /\ \E r \in Requests :
          /\ variant = "first" => r.doc \in FirstDocs
          /\ doc = r.doc /\ url = r.url /\ customFeatureName = r.custom
    /\ InitLocals
    /\ NoServer

\* the locals the callbacks close over, as they stand
Locals ==
    [ elements |-> elements, getters |-> getters, valueGetters |-> valueGetters,
      interactionMethods |-> interactionMethods, elementMeta |-> elementMeta,
      elementCounter |-> elementCounter, records |-> records, error |-> "none" ]

SetLocals(L) ==
    /\ elements' = L.elements
    /\ getters' = L.getters
    /\ valueGetters' = L.valueGetters
    /\ interactionMethods' = L.interactionMethods
    /\ elementMeta' = L.elementMeta
    /\ elementCounter' = L.elementCounter
    /\ records' = L.records

\* the callback the running variant passes to $(tag).each
Callback(tag, i, el, L) ==
    CASE variant = "index" ->
           (CASE tag = "button"   -> EachButton_index(i, el, L)
              [] tag = "input"    -> EachInput_index(i, el, L)
              [] tag = "a"        -> EachLink_index(i, el, L)
              [] tag = "select"   -> EachSelect_index(i, el, L)
              [] tag = "textarea" -> EachTextarea_index(i, el, L))
      [] variant = "generic" ->
           (CASE tag = "button"   -> EachButton_generic(i, el, L)
              [] tag = "input"    -> EachInput_generic(i, el, L)
              [] tag = "a"        -> EachLink_generic(i, el, L)
              [] tag = "select"   -> EachSelect_generic(i, el, L)
              [] tag = "textarea" -> EachTextarea_generic(i, el, L))
      [] variant = "first" ->
           (CASE tag = "button"   -> EachButton_first(i, el, L)
              [] tag = "input"    -> EachInput_first(i, el, L)
              [] tag = "a"        -> EachLink_first(i, el, L)
              [] tag = "select"   -> EachSelect_first(i, el, L)
              [] tag = "textarea" -> EachTextarea_first(i, el, L))
      [] variant = "legacy" ->
           (CASE tag = "button"   -> EachButton_legacy(i, el, L)
              [] tag = "input"    -> EachInput_legacy(i, el, L)
              [] tag = "a"        -> EachLink_legacy(i, el, L)
              [] tag = "select"   -> EachSelect_legacy(i, el, L)
              [] tag = "textarea" -> EachTextarea_legacy(i, el, L))

\* $(tag).each(callback): the callback on every node of the tag, in document
\* order, with its 0-based index; an exception ends the loop
RECURSIVE EachFrom(_, _, _, _)
EachFrom(tag, els, k, L) ==
    IF k > Len(els) \/ L.error # "none" THEN L
    ELSE EachFrom(tag, els, k + 1, Callback(tag, k - 1, els[k], L))

\* $(tag).each(..) on the document d
EachIn(d, tag, L) == EachFrom(tag, Select(d.nodes, tag), 1, L)

\* the five loops in the order of the source: BUTTONS, INPUTS, LINKS, SELECTS, TEXTAREAS
EachOfAllIn(d, L) ==
    EachIn(d, "textarea", EachIn(d, "select", EachIn(d, "a", EachIn(d, "input", EachIn(d, "button", L)))))

Each(tag, L) == EachIn(doc, tag, L)
EachOfAll(L) == EachOfAllIn(doc, L)

\* function entry: featureName, className and the fresh locals
Enter ==
    /\ pc = "idle"
    /\ run < MaxRuns
    /\ run' = run + 1
    /\ LET f == FeatureNameOf(customFeatureName, doc, url)
       IN IF f.error # "none"
          THEN /\ results' = Append(results, Thrown(f.error))
               /\ UNCHANGED << pc, featureName, className, elements, getters, valueGetters,
                               interactionMethods, elementCounter, elementMeta, records >>
          ELSE /\ featureName' = f.value
               /\ className' = ClassNameOf(f.value)
               /\ SetLocals(NewLocals)
               /\ pc' = "classify"
               /\ UNCHANGED results
    /\ workflowMethods' = << >>
    /\ flags' = NoFlags
    /\ invoked' = NoCall
    /\ UNCHANGED << variant, doc, url, customFeatureName, tests, serverVars >>

\* the five $(..).each loops, run to the end or to the first exception
Classify ==
    /\ pc = "classify"
    /\ LET L == EachOfAll(Locals)
       IN /\ SetLocals(L)
          /\ IF L.error = "none"
             THEN pc' = "return" /\ UNCHANGED results
             ELSE pc' = "idle" /\ results' = Append(results, Thrown(L.error))
    /\ UNCHANGED << variant, doc, url, customFeatureName, run, featureName, className,
                    workflowMethods, flags, tests, invoked, serverVars >>

\* the workflow methods of the class: none in index.js and in the second module of part_000
WorkflowMethodsOf(f, u) ==
    IF variant \in { "legacy", "first" } THEN WorkflowMethods_legacy(f, u) ELSE << >>

\* the #meta member: part_000 emits none
MetaOf(meta) == IF variant = "generic" THEN << >> ELSE metaMap(meta)

\* what the function hands back once the loops are over with the locals L
ReturnOf(d, u, feature, L) ==
    IF variant \in { "legacy", "first" } /\ ~ u.wellFormed
    THEN Thrown("TypeError")
    ELSE Returned(ClassCode(ClassNameOf(feature), L.elements, MetaOf(L.elementMeta), L.getters,
                            L.valueGetters, L.interactionMethods,
                            WorkflowMethodsOf(IF variant \in { "legacy", "first" }
                                              THEN Flags(d) ELSE NoFlags, u)),
                  ClassNameOf(feature), feature,
                  IF variant = "generic" THEN << >> ELSE L.elementMeta)

\* the outcome of a call that computed the feature name f and ran the loops
\* to the locals L: the first exception, or the returned object
OutcomeOf(d, u, f, L) ==
    IF f.error # "none" THEN Thrown(f.error)
    ELSE IF L.error # "none" THEN Thrown(L.error)
    ELSE ReturnOf(d, u, f.value, L)

\* a generator that takes its feature name from the instructions when there are any
InstructionsAsName(d, u, custom, instructions) ==
    OutcomeOf(d, u, FeatureNameOf(IF instructions # << >> THEN instructions ELSE custom, d, u),
              EachOfAllIn(d, NewLocals))

\* one whole call generatePageObjectClass($, url, customFeatureName, instructions):
\* the body never reads instructions
generatePageObjectClass(d, u, custom, instructions) ==
    OutcomeOf(d, u, FeatureNameOf(custom, d, u), EachOfAllIn(d, NewLocals))

\* workflow inference, the class source and the returned object
Return ==
    /\ pc = "return"
    /\ flags' = IF variant \in { "legacy", "first" } THEN Flags(doc) ELSE NoFlags
    /\ IF variant \in { "legacy", "first" } /\ ~ url.wellFormed
       THEN /\ results' = Append(results, Thrown("TypeError"))
            /\ pc' = "idle"
            /\ UNCHANGED workflowMethods
       ELSE /\ workflowMethods' = WorkflowMethodsOf(flags', url)
            /\ results' = Append(results,
                   Returned(ClassCode(className, elements, MetaOf(elementMeta), getters,
                                      valueGetters, interactionMethods, workflowMethods'),
                            className, featureName,
                            IF variant = "generic" THEN << >> ELSE elementMeta))
            /\ pc' = IF variant = "legacy" THEN "tests" ELSE "idle"
    /\ UNCHANGED << variant, doc, url, customFeatureName, run, featureName, className,
                    elements, getters, valueGetters, interactionMethods, elementCounter,
                    elementMeta, records, tests, invoked, serverVars >>

\* createCypressFiles: generateCypressTests($, pageObjectMeta, url)
GenerateTests ==
    /\ pc = "tests"
    /\ tests' = Append(tests, generateCypressTests(doc, results[Len(results)], url))
    /\ pc' = "idle"
    /\ UNCHANGED << variant, doc, url, customFeatureName, run, featureName, className,
                    elements, getters, valueGetters, interactionMethods, workflowMethods,
                    elementCounter, elementMeta, flags, records, results, invoked, serverVars >>

Next ==
    \/ Enter
    \/ Classify
    \/ Return
    \/ GenerateTests

Spec == Init /\ [][Next]_vars

-----------------------------------------------------------------------------
(* Calls of the workflow methods: a test instantiates the class the last   *)
(* run returned and calls one of the methods its source declares.          *)

\* the workflow and utility methods a class declares
WorkflowNames(code) == { code.workflowMethods[i].name : i \in DOMAIN code.workflowMethods }

\* new <className>().<method>(..)
Invoke ==
    /\ pc = "idle"
    /\ results # << >>
    /\ results[Len(results)].status = "returned"
    /\ \E method \in WorkflowNames(results[Len(results)].classCode) :
          invoked' = Invocation(results[Len(results)].classCode, method)
    /\ UNCHANGED << variant, doc, url, customFeatureName, pc, run, featureName, className,
                    elements, getters, valueGetters, interactionMethods, workflowMethods,
                    elementCounter, elementMeta, flags, records, results, tests, serverVars >>

\* the variants that emit workflow methods, on the documents of the scenarios
InitCalls ==
    /\ variant \in { "legacy", "first" }
    /\ doc \in FirstDocs \ NamingDocs
    /\ url = ShopUrl
    /\ customFeatureName \in { << >>, V_cart }
    /\ InitLocals
    /\ NoServer

NextCalls ==
    \/ Next
    \/ Invoke

SpecCalls == InitCalls /\ [][NextCalls]_vars


\* the import line of the test module: import { <className> } from '../pages/<featureName>'
TestImport(testCode) ==
    [ name |-> testCode.className, from |-> << "..", "pages", testCode.featureName >> ]

-----------------------------------------------------------------------------
(* The tool handler and CypressFileManager.  Every request is served by an *)
(* async handler; handlers interleave at their awaits, and what runs       *)
(* between two awaits is one step.  The workspace is the function files    *)
(* from paths to contents; a path is the directory below the workspace     *)
(* root and the file name.                                                 *)

Handlers == { "a", "b" }

\* the values Date.now() takes while the requests are served
MaxClock == 1

X_js     == << ".","j","s" >>
X_cy_js  == << ".","c","y",".","j","s" >>
X_md     == << ".","m","d" >>
X_txt    == << ".","t","x","t" >>
X_backup == << ".","b","a","c","k","u","p","." >>
F_index_js == << "i","n","d","e","x",".","j","s" >>
F_cypress_instructions_md ==
    << "c","y","p","r","e","s","s",".","i","n","s","t","r","u","c","t","i","o","n","s",".","m","d" >>

Path(dir, name) == [ dir |-> dir, name |-> name ]
NoPath == Path(<< >>, << >>)

PagesDir == << "cypress", "pages" >>
TestsDir == << "cypress", "e2e", "tests" >>

\* path.join(__dirname, '.github', 'instructions', 'cypress.instructions.md')
LocalInstructionsPath == Path(<< "__dirname", ".github", "instructions" >>, F_cypress_instructions_md)
\* the instructions argument taken as a path
InstructionsPath(instructions) == Path(<< >>, instructions)

\* fileExists(p) on the disk fs
fileExists(fs, p) == p \in DOMAIN fs

\* a copy that copies nothing
SkipCopy(fs, from, to) == fs

\* fs.writeFile(p, content) and fs.copyFile(from, to)
writeFile(fs, p, content) == [ q \in DOMAIN fs \cup { p } |-> IF q = p THEN content ELSE fs[q] ]
copyFile(fs, from, to) == writeFile(fs, to, fs[from])

\* new Date().toISOString().replace(/[:.]/g, '-'): one text per instant
Timestamp(t) == NumToStr(t)

\* the file a create.. call writes, and the backup it makes of it
TargetPath(op) == Path(op.dir, op.base \o op.ext)
BackupPath(op, t) == Path(op.dir, op.base \o X_backup \o Timestamp(t) \o op.ext)

\* createPageObject: cypress/pages/<featureName>.js <- classCode
PageObjectOp(meta) ==
    [ kind |-> "page", dir |-> PagesDir, base |-> meta.featureName, ext |-> X_js,
      content |-> [ kind |-> "page", classCode |-> meta.classCode, tests |-> << >>, exports |-> { } ] ]
\* createTestFile: cypress/e2e/tests/<featureName>.cy.js <- testCode
TestFileOp(testCode, feature) ==
    [ kind |-> "test", dir |-> TestsDir, base |-> feature, ext |-> X_cy_js,
      content |-> [ kind |-> "test", classCode |-> << >>, tests |-> testCode, exports |-> { } ] ]
NoOp == [ kind |-> "none", dir |-> << >>, base |-> << >>, ext |-> << >>,
          content |-> [ kind |-> "none", classCode |-> << >>, tests |-> << >>, exports |-> { } ] ]

\* an instructions file on disk
TextFile(text) == [ kind |-> "text", classCode |-> << >>, tests |-> << >>, exports |-> { }, text |-> text ]

\* str.replace(p, ''): the first occurrence of p removed
RECURSIVE RemoveFirst(_, _)
RemoveFirst(str, p) ==
    IF Len(str) < Len(p) THEN str
    ELSE IF StartsWith(str, p) THEN SubSeq(str, Len(p) + 1, Len(str))
    ELSE << Head(str) >> \o RemoveFirst(Tail(str), p)

\* createIndexFile: one export line per .js file of cypress/pages but index.js
IndexContent(fs) ==
    LET pageFiles == { q.name : q \in { q \in DOMAIN fs : q.dir = PagesDir
                                         /\ EndsWith(q.name, X_js) /\ q.name # F_index_js } }
    IN [ kind |-> "index", classCode |-> << >>, tests |-> << >>,
         exports |-> { [ name |-> RemoveFirst(file, X_js), from |-> RemoveFirst(file, X_js) ] :
                       file \in pageFiles } ]

\* the handler's resolution of the instructions it passes on
LocalInstructions(fs) ==
    IF fileExists(fs, LocalInstructionsPath) THEN fs[LocalInstructionsPath].text ELSE << >>
ExternalInstructions(fs, instructions) ==
    IF instructions # << >> /\ Len(Trim(instructions)) > 0
    THEN IF EndsWith(instructions, X_md) \/ EndsWith(instructions, X_txt)
         THEN IF fileExists(fs, InstructionsPath(instructions))
              THEN fs[InstructionsPath(instructions)].text
              ELSE instructions
         ELSE instructions
    ELSE << >>
FinalInstructions(fs, instructions) ==
    IF ExternalInstructions(fs, instructions) # << >>
    THEN ExternalInstructions(fs, instructions)
    ELSE LocalInstructions(fs)

\* nothing generated yet
NoMeta == [ Thrown("none") EXCEPT !.status = "none" ]
NoTests == [ status |-> "none", error |-> "none", className |-> << >>, featureName |-> << >>,
             elementTests |-> << >>, formTests |-> << >>, workflowTests |-> << >> ]

\* the locals of one handler when its request arrives
NewHandler(r) ==
    [ pc |-> IF variant = "first" THEN "launch" ELSE "start",
      doc |-> r.doc, url |-> r.url, pageObjectName |-> r.custom, instructions |-> r.instructions,
      finalInstructions |-> << >>, browser |-> "none",
      pageObjectMeta |-> NoMeta, cypressTests |-> NoTests,
      op |-> NoOp, existed |-> FALSE,
      pageObjectPath |-> NoPath, testFilePath |-> NoPath, indexPath |-> NoPath,
      response |-> "none" ]

\* the catch block: the error response
Failed(h) == [ handlers EXCEPT ![h].pc = "done", ![h].response = "error" ]

generatorVars == << pc, run, featureName, className, elements, getters, valueGetters,
                    interactionMethods, workflowMethods, elementCounter, elementMeta,
                    flags, records, results, tests, invoked >>
\* what is fixed once the requests arrived
requestVars == << variant, doc, url, customFeatureName, alone, workspace >>

\* detectWorkspace and ensureDirectoryStructure
Start(h) ==
    /\ handlers[h].pc = "start"
    /\ handlers' = [ handlers EXCEPT ![h].pc =
                        IF variant \in { "index", "generic" } THEN "instructions" ELSE "launch" ]
    /\ UNCHANGED << requestVars, generatorVars, files, clock >>

\* localInstructions, externalInstructions, finalInstructions
ResolveInstructions(h) ==
    /\ handlers[h].pc = "instructions"
    /\ handlers' = [ handlers EXCEPT
                        ![h].finalInstructions = FinalInstructions(files, handlers[h].instructions),
                        ![h].pc = "launch" ]
    /\ UNCHANGED << requestVars, generatorVars, files, clock >>

\* puppeteer.launch, newPage, page.goto, page.content, browser.close: any of
\* the awaits may reject, and page.goto rejects for a url that is none.  A
\* rejection goes to the catch block, which does not close the browser that
\* launch started.
Browse(h) ==
    /\ handlers[h].pc = "launch"
    /\ \E rejected \in { "none", "launch", "newPage", "goto", "content" } :
          /\ rejected = "none" => handlers[h].url.wellFormed
          /\ handlers' = CASE rejected = "none" ->
                                [ handlers EXCEPT ![h].browser = "closed", ![h].pc = "generate" ]
                            [] rejected = "launch" -> Failed(h)
                            [] OTHER -> [ Failed(h) EXCEPT ![h].browser = "open" ]
    /\ UNCHANGED << requestVars, generatorVars, files, clock >>

\* the locals of the call of generatePageObjectClass that just ran
ActivationOf(d, u, f, L) ==
    IF f.error # "none"
    THEN UNCHANGED << featureName, className, elements, getters, valueGetters,
                      interactionMethods, elementCounter, elementMeta, records,
                      flags, workflowMethods >>
    ELSE /\ featureName' = f.value
         /\ className' = ClassNameOf(f.value)
         /\ SetLocals(L)
         /\ flags' = IF L.error = "none" /\ variant \in { "legacy", "first" }
                     THEN Flags(d) ELSE NoFlags
         /\ workflowMethods' = IF L.error = "none" /\ (u.wellFormed \/ variant \notin { "legacy", "first" })
                               THEN WorkflowMethodsOf(flags', u) ELSE << >>

Activation(d, u, custom) == ActivationOf(d, u, FeatureNameOf(custom, d, u), EachOfAllIn(d, NewLocals))

\* the handler after the two generators returned or threw
Generated(h, meta, cypressTests) ==
    handlers' =
        IF meta.status = "threw"
        THEN [ Failed(h) EXCEPT ![h].pageObjectMeta = meta ]
        ELSE IF cypressTests.status = "threw" \/ variant = "first"
        THEN [ Failed(h) EXCEPT ![h].pageObjectMeta = meta, ![h].cypressTests = cypressTests ]
        ELSE [ handlers EXCEPT ![h].pageObjectMeta = meta, ![h].cypressTests = cypressTests,
                               ![h].op = PageObjectOp(meta), ![h].pc = "exists" ]

\* generateCypressTests($, pageObjectMeta, url), which only part_001 calls
TestsOf(me, meta) ==
    IF variant = "legacy" /\ meta.status = "returned"
    THEN generateCypressTests(me.doc, meta, me.url) ELSE NoTests

GeneratedFrom(h, me, meta) == Generated(h, meta, TestsOf(me, meta))

\* cheerio.load, generatePageObjectClass, generateCypressTests (part_001) and
\* the call of createPageObject up to its first await
Generate(h) ==
    /\ handlers[h].pc = "generate"
    /\ Activation(handlers[h].doc, handlers[h].url, handlers[h].pageObjectName)
    /\ GeneratedFrom(h, handlers[h],
                     generatePageObjectClass(handlers[h].doc, handlers[h].url,
                                             handlers[h].pageObjectName,
                                             handlers[h].finalInstructions))
    /\ UNCHANGED << requestVars, pc, run, results, tests, invoked, files, clock >>

\* await this.fileExists(filePath)
FileExists(h) ==
    /\ handlers[h].pc = "exists"
    /\ LET there == fileExists(files, TargetPath(handlers[h].op))
       IN handlers' = [ handlers EXCEPT ![h].existed = there,
                                        ![h].pc = IF there THEN "copy" ELSE "write" ]
    /\ UNCHANGED << requestVars, generatorVars, files, clock >>

\* await fs.copyFile(filePath, backupPath), which may reject: the rejection
\* leaves the disk as it is and goes to the catch block
CopyFile(h) ==
    /\ handlers[h].pc = "copy"
    /\ \E copied \in BOOLEAN :
          IF copied
          THEN /\ files' = copyFile(files, TargetPath(handlers[h].op),
                                    BackupPath(handlers[h].op, clock))
               /\ handlers' = [ handlers EXCEPT ![h].pc = "write" ]
          ELSE /\ files' = files
               /\ handlers' = Failed(h)
    /\ UNCHANGED << requestVars, generatorVars, clock >>

\* await fs.writeFile(filePath, ..), and the handler up to its next await
WriteFile(h) ==
    /\ handlers[h].pc = "write"
    /\ files' = writeFile(files, TargetPath(handlers[h].op), handlers[h].op.content)
    /\ LET me == handlers[h]
       IN handlers' =
             IF me.op.kind = "page" /\ variant = "legacy"
             THEN [ handlers EXCEPT ![h].pageObjectPath = TargetPath(me.op),
                                    ![h].op = TestFileOp(me.cypressTests, me.pageObjectMeta.featureName),
                                    ![h].pc = "exists" ]
             ELSE IF me.op.kind = "page"
             THEN [ handlers EXCEPT ![h].pageObjectPath = TargetPath(me.op), ![h].pc = "readdir" ]
             ELSE [ handlers EXCEPT ![h].testFilePath = TargetPath(me.op), ![h].pc = "readdir" ]
    /\ UNCHANGED << requestVars, generatorVars, clock >>

\* createIndexFile: await fs.readdir(pagesDir) and the content built from it
ReadDir(h) ==
    /\ handlers[h].pc = "readdir"
    /\ handlers' = [ handlers EXCEPT
                        ![h].op = [ kind |-> "index", dir |-> PagesDir, base |-> F_index_js,
                                    ext |-> << >>, content |-> IndexContent(files) ],
                        ![h].pc = "writeindex" ]
    /\ UNCHANGED << requestVars, generatorVars, files, clock >>

\* await fs.writeFile(indexPath, indexContent), and the success response
WriteIndex(h) ==
    /\ handlers[h].pc = "writeindex"
    /\ files' = writeFile(files, TargetPath(handlers[h].op), handlers[h].op.content)
    /\ handlers' = [ handlers EXCEPT ![h].indexPath = TargetPath(handlers[h].op),
                                     ![h].pc = "done", ![h].response = "ok" ]
    /\ UNCHANGED << requestVars, generatorVars, clock >>

\* time passes
Tick ==
    /\ clock < MaxClock
    /\ clock' = clock + 1
    /\ UNCHANGED << requestVars, generatorVars, handlers, files >>

V_terse == << "t","e","r","s","e" >>
V_blank == << " "," " >>
V_n_md  == << "n",".","m","d" >>
V_local == << "l","o","c","a","l" >>
V_notes == << "n","o","t","e","s" >>

Request(d, u, custom, instructions) ==
    [ doc |-> d, url |-> u, custom |-> custom, instructions |-> instructions ]

\* the tool calls the server is given
ServerRequests ==
    { Request(LoginDoc, ShopUrl, << >>, << >>),
      Request(LoginDoc, ShopUrl, << >>, V_terse),
      Request(LoginDoc, ShopUrl, << >>, V_n_md),
      Request(ButtonsThenInputDoc, ShopUrl, V_cart, V_blank),
      Request(LoginButtonDoc, BadUrl, V_cart, << >>),
      Request(LoginButtonDoc, ShopUrl, V_cart, << >>) }

\* the tool calls that arrive while another one is being served
SecondRequests ==
    { Request(LoginDoc, ShopUrl, << >>, V_terse),
      Request(ButtonsThenInputDoc, ShopUrl, V_cart, V_blank),
      Request(LoginButtonDoc, ShopUrl, V_cart, << >>) }

EmptyDisk == [ q \in { } |-> TextFile(<< >>) ]

\* a page object written before the server started: export class <cn> {}
OldPage(cn) ==
    [ kind |-> "page", tests |-> << >>, exports |-> { },
      classCode |-> ClassCode(cn, << >>, << >>, << >>, << >>, << >>, << >>) ]

\* the disk when the server starts: with or without the two instructions
\* files, or with the page objects page.js and cart.js of an earlier session
Disks ==
    { EmptyDisk,
      writeFile(EmptyDisk, LocalInstructionsPath, TextFile(V_local)),
      writeFile(writeFile(EmptyDisk, LocalInstructionsPath, TextFile(V_local)),
                InstructionsPath(V_n_md), TextFile(V_notes)),
      writeFile(writeFile(EmptyDisk, Path(PagesDir, W_page \o X_js), OldPage(cap(W_page) \o W_Page)),
                Path(PagesDir, V_cart \o X_js), OldPage(cap(V_cart) \o W_Page)) }

InitServer ==
    /\ variant \in Variants
    /\ handlers \in { [ h \in Handlers |-> NewHandler(IF h = "a" THEN ra ELSE rb) ] :
                      ra \in ServerRequests, rb \in SecondRequests }
    /\ doc = handlers["a"].doc
    /\ url = handlers["a"].url
    /\ customFeatureName = handlers["a"].pageObjectName
    /\ InitLocals
    /\ files \in Disks
    /\ clock = 0
    /\ alone = [ h \in Handlers |->
                   generatePageObjectClass(handlers[h].doc, handlers[h].url,
                                           handlers[h].pageObjectName, << >>) ]
    /\ workspace = NoSearch

NextServer ==
    \/ \E h \in Handlers : Start(h)
    \/ \E h \in Handlers : ResolveInstructions(h)
    \/ \E h \in Handlers : Browse(h)
    \/ \E h \in Handlers : Generate(h)
    \/ \E h \in Handlers : FileExists(h)
    \/ \E h \in Handlers : CopyFile(h)
    \/ \E h \in Handlers : WriteFile(h)
    \/ \E h \in Handlers : ReadDir(h)
    \/ \E h \in Handlers : WriteIndex(h)
    \/ Tick

SpecServer == InitServer /\ [][NextServer]_vars

-----------------------------------------------------------------------------
(* detectWorkspace.  An absolute path is the sequence of its directory     *)
(* names, the filesystem root the empty one.  A directory is known by what *)
(* detectWorkspace looks at: the two configuration files and package.json. *)

\* the depth of the deepest start path
MaxDepth == 2

\* /d1/d2/../dk
RECURSIVE DirAt(_)
DirAt(k) == IF k = 0 THEN << >> ELSE Append(DirAt(k - 1), << "d" >> \o NumToStr(k))

\* path.dirname(p): the root is its own parent
dirname(p) == IF p = << >> THEN p ELSE SubSeq(p, 1, Len(p) - 1)

\* package.json: absent, or text that JSON.parse rejects, or an object with
\* the names listed under dependencies and devDependencies
Package(exists, parses, deps, devDeps) ==
    [ exists |-> exists, parses |-> parses, dependencies |-> deps, devDependencies |-> devDeps ]
NoPackage == Package(FALSE, FALSE, { }, { })

Directory(js, ts, package) == [ configJs |-> js, configTs |-> ts, package |-> package ]

\* the directories a chain is made of
Directories ==
    { Directory(FALSE, FALSE, NoPackage),
      Directory(TRUE, FALSE, NoPackage),
      Directory(FALSE, TRUE, Package(TRUE, TRUE, { "mocha" }, { })),
      Directory(FALSE, FALSE, Package(TRUE, FALSE, { }, { })),
      Directory(FALSE, FALSE, Package(TRUE, TRUE, { "mocha" }, { "chai" })),
      Directory(FALSE, FALSE, Package(TRUE, TRUE, { }, { "cypress" })),
      Directory(FALSE, FALSE, Package(TRUE, TRUE, { "@cypress/react" }, { })) }

\* packageData.dependencies?.cypress || packageData.devDependencies?.cypress ||
\* packageData.dependencies?.['@cypress/react'] || packageData.devDependencies?.['@cypress/react']
hasCypress(packageData) ==
    \/ "cypress" \in packageData.dependencies
    \/ "cypress" \in packageData.devDependencies
    \/ "@cypress/react" \in packageData.dependencies
    \/ "@cypress/react" \in packageData.devDependencies

\* one pass of the loop body returns currentPath
FoundIn(dir) ==
    \/ dir.configJs \/ dir.configTs
    \/ dir.package.exists /\ dir.package.parses /\ hasCypress(dir.package)

\* detectWorkspace(startPath) is called
NewSearch(startPath, tree) ==
    [ pc |-> "loop", startPath |-> startPath, tree |-> tree, currentPath |-> startPath,
      workspaceRoot |-> << >> ]

\* one pass of while (currentPath !== path.dirname(currentPath))
Examine ==
    /\ workspace.pc = "loop"
    /\ workspace.currentPath # dirname(workspace.currentPath)
    /\ workspace' =
          IF FoundIn(workspace.tree[workspace.currentPath])
          THEN [ workspace EXCEPT !.pc = "returned", !.workspaceRoot = workspace.currentPath ]
          ELSE [ workspace EXCEPT !.currentPath = dirname(workspace.currentPath) ]
    /\ UNCHANGED << variant, doc, url, customFeatureName, generatorVars, handlers, files, clock, alone >>

\* the loop is left: throw new Error('No valid Cypress project found. ..')
GiveUp ==
    /\ workspace.pc = "loop"
    /\ workspace.currentPath = dirname(workspace.currentPath)
    /\ workspace' = [ workspace EXCEPT !.pc = "threw" ]
    /\ UNCHANGED << variant, doc, url, customFeatureName, generatorVars, handlers, files, clock, alone >>

\* the directories from the root down to the start path, each with any content
Chains(depth) == [ { DirAt(k) : k \in 0..depth } -> Directories ]

InitWorkspace ==
    /\ variant = "index"
    /\ doc = LoginDoc /\ url = ShopUrl /\ customFeatureName = << >>
    /\ InitLocals
    /\ handlers = << >> /\ files = << >> /\ clock = 0 /\ alone = << >>
    /\ \E depth \in 0..MaxDepth : \E tree \in Chains(depth) :
          workspace = NewSearch(DirAt(depth), tree)

NextWorkspace ==
    \/ Examine
    \/ GiveUp

SpecWorkspace == InitWorkspace /\ [][NextWorkspace]_vars

-----------------------------------------------------------------------------
(* Properties.  A run is over when pc is back at "idle"; results holds one *)
(* entry per run and tests one entry per run of the legacy pipeline.       *)

\* the keys of the locator map of a class
Keys(code) == { code.elements[i].key : i \in DOMAIN code.elements }

\* the results of the runs that returned a class
ReturnedRuns == { k \in DOMAIN results : results[k].status = "returned" }

\* how many records before the i-th are of the same tag as the i-th
SameTagBefore(i) == Cardinality({ j \in 1..(i - 1) : records[j].node.tag = records[i].node.tag })

\* the element carries none of the attributes and no text a locator could use
IsBare(n) ==
    /\ n.cy = << >> /\ n.test = << >> /\ n.testid = << >> /\ n.id = << >>
    /\ n.name = << >> /\ n.placeholder = << >> /\ n.class = << >>
    /\ Trim(n.text) = << >> /\ n.href = << >>

\* C1: in every class index.js returns, the keys of the locator map are
\* pairwise distinct (no two entries of #elements share an identifier).
C1_IdentifiersDistinct ==
    variant = "index" =>
        \A k \in ReturnedRuns :
            LET els == results[k].classCode.elements
            IN \A i, j \in DOMAIN els : i # j => els[i].key # els[j].key

\* C2: in every returned class, the identifiers that interaction or value
\* methods are emitted for are exactly the keys of the locator map, and each
\* method is named after the key it dereferences.
C2_MethodsMatchLocators ==
    \A k \in ReturnedRuns :
        LET code == results[k].classCode
        IN /\ { m.ref : m \in MethodsOf(code) } = Keys(code)
           /\ \A m \in MethodsOf(code) : m.name = cap(m.ref)

\* C2 witness: index.js returned a class for a document with a link and a
\* select, whose entries and methods are all in the class.
C2_Witness ==
    /\ variant = "index" /\ pc = "idle" /\ ReturnedRuns # { }
    /\ \E i, j \in DOMAIN records : records[i].node.tag = "a" /\ records[j].node.tag = "select"
    /\ Cardinality(Keys(results[1].classCode)) = 2

\* C3: every page-object method an element-level test calls is a method the
\* class of the same run defines (same verb, same identifier).
C3_TestsCallDefinedMethods ==
    (variant = "legacy" /\ pc = "idle" /\ tests # << >> /\ Len(tests) = Len(results)) =>
        LET t == tests[Len(tests)]
            code == results[Len(results)].classCode
        IN t.status = "returned" =>
             \A i \in DOMAIN t.elementTests :
                \A c \in DOMAIN t.elementTests[i].calls :
                    \E m \in MethodsOf(code) :
                        /\ m.verb = t.elementTests[i].calls[c].verb
                        /\ m.name = t.elementTests[i].calls[c].name

\* C4: an element with both data-testid and id (and neither data-cy nor
\* data-test) resolves to the data-testid locator, and where a raw label is
\* kept it is a category word followed by the data-testid value, not the id.
C4_TestIdBeatsId ==
    \A i \in DOMAIN records :
        LET n == records[i].node
        IN (n.testid # << >> /\ n.id # << >> /\ n.cy = << >> /\ n.test = << >>) =>
             /\ records[i].locator = GetByAttr("data-testid", n.testid)
             /\ variant \in { "index", "generic" } =>
                  \E w \in { W_button, W_input, W_link, W_select, W_textarea, W_a } :
                      records[i].rawName = w \o SP \o n.testid

\* C4 witness: the later generator resolved a select that has both a
\* data-testid and an id.
C4_Witness ==
    /\ variant = "generic"
    /\ \E i \in DOMAIN records :
          /\ records[i].node.tag = "select"
          /\ records[i].node.testid # << >> /\ records[i].node.id # << >>
          /\ records[i].node.testid # records[i].node.id

\* C5: the locator of an element is taken from the first present of data-cy,
\* data-test, data-testid, id, in that order; the id is used only when none
\* of the three data-* attributes is present.
C5_AttributePriority ==
    variant \in { "index", "generic" } =>
        \A i \in DOMAIN records :
            LET n == records[i].node
                loc == records[i].locator
            IN /\ n.cy # << >> => loc = GetByAttr("data-cy", n.cy)
               /\ (n.cy = << >> /\ n.test # << >>) => loc = GetByAttr("data-test", n.test)
               /\ (n.cy = << >> /\ n.test = << >> /\ n.testid # << >>)
                     => loc = GetByAttr("data-testid", n.testid)
               /\ (n.cy = << >> /\ n.test = << >> /\ n.testid = << >> /\ n.id # << >>)
                     => loc = GetById(n.id)

\* C6: an element with no usable attribute or text gets a positional locator
\* whose index is the element's 0-based position among the elements of its
\* own category, and its raw label carries that position plus one.
C6_PositionPerCategory ==
    variant \in { "index", "generic" } =>
        \A i \in DOMAIN records :
            IsBare(records[i].node) =>
                /\ records[i].locator.eq = << SameTagBefore(i) >>
                /\ EndsWith(records[i].rawName, SP \o NumToStr(SameTagBefore(i) + 1))

\* C7: every run of the generator on the same document, URL and feature
\* name gives the same result: nothing of one run carries over to the next.
C7_RunsIdentical ==
    \A i, j \in DOMAIN results : results[i] = results[j]

\* C7 witness: two runs of index.js are over, on a document whose names and
\* locators come from the element counter.
C7_Witness ==
    /\ variant = "index" /\ pc = "idle" /\ Len(results) = 2
    /\ results[2].status = "returned"
    /\ \E i \in DOMAIN results[2].classCode.elements :
          /\ i > 1
          /\ results[2].classCode.elements[i].locator.eq # NoIndex

\* C8: hasLoginForm is true when an input inside a form has type password,
\* and false when no input inside any form is a password input (by type or
\* by a name containing "password").
C8_LoginFormDetection ==
    (variant = "legacy" /\ pc = "tests") =>
        LET inForm == { i \in DOMAIN doc.nodes :
                          doc.nodes[i].tag = "input" /\ doc.nodes[i].form # 0 }
        IN /\ (\E i \in inForm : doc.nodes[i].type = W_password) => flags.hasLoginForm
           /\ (~ \E i \in inForm : \/ doc.nodes[i].type = W_password
                                   \/ Includes(doc.nodes[i].name, W_password))
                 => ~ flags.hasLoginForm

\* the pipeline of part_001 is over for the login document
LoginDocDone ==
    /\ variant = "legacy" /\ doc = LoginDoc /\ pc = "idle"
    /\ tests # << >> /\ Len(tests) = Len(results)

\* what C9 states apart from the identifier of the first input: the three
\* elements are in the locator map, the first by its data-testid, the class
\* has login(username, password), and the tests hold a login workflow group
\* with a case for valid and a case for invalid credentials
LoginRoundTrip(first) ==
    LET code == results[Len(results)].classCode
        t == tests[Len(tests)]
    IN /\ Len(records) = 3
       /\ records[1].node = SubmitButton /\ records[2].node = UserInput
       /\ records[3].node = PasswordInput
       /\ \A i \in 1..3 : records[i].elementName \in Keys(code)
       /\ records[2].elementName = first
       /\ code.elements[2] = Entry(first, GetByAttr("data-testid", V_user))
       /\ flags.hasLoginForm
       /\ \E i \in DOMAIN code.workflowMethods :
             code.workflowMethods[i] = Workflow("login", << "username", "password" >>)
       /\ t.status = "returned"
       /\ \E i \in DOMAIN t.workflowTests :
             /\ t.workflowTests[i].title = "Login Workflow"
             /\ \E a, b \in DOMAIN t.workflowTests[i].cases :
                   /\ t.workflowTests[i].cases[a] = "should login with valid credentials"
                   /\ t.workflowTests[i].cases[b] = "should show error with invalid credentials"

C10_UtilityMethodsAlways ==
    variant \in { "index", "legacy" } =>
        \A k \in DOMAIN results :
            /\ doc.nodes = << >> =>
                  /\ results[k].status = "returned"
                  /\ results[k].classCode.elements = << >>
            /\ results[k].status = "returned" =>
                  LET wms == results[k].classCode.workflowMethods
                  IN /\ \E i \in DOMAIN wms : wms[i].name = "navigateToHome"
                     /\ \E i \in DOMAIN wms :
                           wms[i].name = "verifyPageLoaded" /\ wms[i].host = url.hostname

\* the first non-empty sequence of a list of candidates, << >> when there is none
RECURSIVE FirstAvailable(_)
FirstAvailable(cands) ==
    IF cands = << >> THEN << >>
    ELSE IF Head(cands) # << >> THEN Head(cands) ELSE FirstAvailable(Tail(cands))

\* the first keyword of the vocabulary that one of the parts contains, << >> when none does
KeywordOf(parts) ==
    LET hits == { k \in DOMAIN Keywords :
                    \E i \in DOMAIN parts : Includes(LowerAll(parts[i]), Keywords[k]) }
    IN IF hits = { } THEN << >> ELSE Keywords[CHOOSE k \in hits : \A j \in hits : k <= j]

\* the feature name the stated priority gives for a document and a well-formed URL
FeatureNameByPriority(d, u) ==
    LET formName == IF d.forms = << >> THEN << >>
                    ELSE FirstAvailable(<< d.forms[1].name, d.forms[1].id >>)
        legends == [ i \in DOMAIN d.forms |-> Trim(d.forms[i].legend) ]
        text == FirstAvailable(<< formName, FirstAvailable(legends),
                                  Trim(d.h1), Trim(d.h2), Trim(d.title) >>)
    IN IF text # << >> THEN sanitizeFeatureName(text)
       ELSE FirstAvailable(<< KeywordOf(u.path), KeywordOf(<< u.hostname >>),
                              IF u.path = << >> THEN << >> ELSE sanitizeFeatureName(u.path[1]),
                              W_page >>)

\* only a-z, 0-9 and underscore, not empty, no underscore at either end
IsLowerSnake(s) ==
    /\ s # << >>
    /\ \A i \in DOMAIN s : s[i] \in LowerAlnumSet \cup { "_" }
    /\ s[1] # "_" /\ s[Len(s)] # "_"

\* the first half of C12 alone: without a page-object name the feature name
\* of a returned class is the one the stated priority gives
NameFollowsPriority ==
    \A k \in ReturnedRuns :
        customFeatureName = << >> => results[k].featureName = FeatureNameByPriority(doc, url)

\* C12: without a page-object name the feature name is the first available
\* of form name/id, first legend, h1, h2, title, keyword in the path, keyword
\* in the hostname, first path segment, 'page'; the feature name of every run
\* is a non-empty lower-snake-case name, and className is the feature name
\* with its first letter capitalised followed by 'Page'.
C12_FeatureNamePriority ==
    (variant = "index" /\ url.wellFormed) =>
        \A k \in ReturnedRuns :
            /\ customFeatureName = << >> => results[k].featureName = FeatureNameByPriority(doc, url)
            /\ IsLowerSnake(results[k].featureName)
            /\ results[k].className = cap(results[k].featureName) \o W_Page

LegacyDone ==
    /\ variant = "legacy" /\ pc = "idle" /\ tests # << >> /\ Len(tests) = Len(results)
    /\ results[Len(results)].status = "returned"

\* C11: for every document and a well-formed URL, generatePageObjectClass
\* followed by generateCypressTests returns source text: neither throws.
C11_GenerationNeverThrows ==
    (variant = "legacy" /\ url.wellFormed) =>
        /\ \A k \in DOMAIN results : results[k].status = "returned"
        /\ \A k \in DOMAIN tests : tests[k].status = "returned"

\* the titles of the workflow test groups, in the order of the test source
GroupTitles(t) == [ i \in DOMAIN t.workflowTests |-> t.workflowTests[i].title ]

\* the names of the login, search and register methods of a class, in the order of the source
FlowNames(code) ==
    LET RECURSIVE Pick(_)
        Pick(ws) == IF ws = << >> THEN << >>
                    ELSE IF Head(ws).name \in { "login", "search", "register" }
                         THEN << Head(ws).name >> \o Pick(Tail(ws))
                         ELSE Pick(Tail(ws))
    IN Pick(code.workflowMethods)

\* C18: login, search and register are in the class, and their test groups
\* in the test source, exactly when hasLoginForm, hasSearchForm and
\* hasRegistrationForm are true, in the order login, search, registration.
C18_WorkflowIffFlag ==
    (LegacyDone /\ tests[Len(tests)].status = "returned") =>
        LET wanted == (IF flags.hasLoginForm THEN << "login" >> ELSE << >>)
                      \o (IF flags.hasSearchForm THEN << "search" >> ELSE << >>)
                      \o (IF flags.hasRegistrationForm THEN << "register" >> ELSE << >>)
            title == [ n \in { "login", "search", "register" } |->
                         CASE n = "login" -> "Login Workflow"
                           [] n = "search" -> "Search Workflow"
                           [] n = "register" -> "Register Workflow" ]
        IN /\ FlowNames(results[Len(results)].classCode) = wanted
           /\ GroupTitles(tests[Len(tests)]) = [ i \in DOMAIN wanted |-> title[wanted[i]] ]

\* the element-level tests about one element: the kinds of its it(..) blocks
KindsFor(t, elementName) ==
    { t.elementTests[i].kind : i \in { j \in DOMAIN t.elementTests :
                                          t.elementTests[j].elementName = elementName } }

\* C20: every element record has the element-level tests of its category:
\* click and text-read for buttons and links, type (with read-back) and
\* clear for free-text inputs and textareas, check and uncheck for checkbox
\* and radio inputs; no record is left without an element-level test.
C20_ElementTestsPerCategory ==
    (LegacyDone /\ tests[Len(tests)].status = "returned") =>
        LET t == tests[Len(tests)]
            meta == results[Len(results)].elementMeta
        IN \A i \in DOMAIN meta :
              LET kinds == KindsFor(t, meta[i].elementName)
              IN /\ kinds # { }
                 /\ meta[i].type \in { W_button, W_link } => kinds = { "click", "get text" }
                 /\ IsBoolean(meta[i].type) => kinds = { "check", "uncheck" }
                 /\ (meta[i].type = W_textarea
                       \/ (StartsWith(meta[i].elementName, W_input \o US) /\ ~ IsBoolean(meta[i].type)))
                      => kinds = { "type", "clear" }

\* C17: every element of the document yields exactly one locator-map entry,
\* an element without any resolvable attribute through the positional
\* fallback; classification never throws and never skips an element.
C17_EveryElementClassified ==
    (variant \in { "index", "generic", "first" } /\ url.wellFormed) =>
        /\ \A k \in DOMAIN results :
              /\ results[k].status = "returned"
              /\ Len(results[k].classCode.elements) = Len(doc.nodes)
        /\ \A i \in DOMAIN records :
              IsBare(records[i].node) => records[i].locator.eq # NoIndex

\* C19: every call of an emitted workflow or utility method completes and
\* returns the page object, whatever accessors the class defines; a role whose
\* accessor is missing is skipped.
C19_WorkflowCallsComplete ==
    variant = "legacy" => invoked.status \in { "none", "returned" }

\* every run of Spec returns what the whole call returns
StepwiseIsWhole ==
    \A k \in DOMAIN results :
        results[k] = generatePageObjectClass(doc, url, customFeatureName, << >>)

\* the handlers whose call of generatePageObjectClass is over
GeneratedHandlers == { h \in Handlers : handlers[h].pageObjectMeta.status # "none" }

\* the two handlers were given the same document, url and pageObjectName
SameRequest(g, h) ==
    /\ handlers[g].doc = handlers[h].doc
    /\ handlers[g].url = handlers[h].url
    /\ handlers[g].pageObjectName = handlers[h].pageObjectName

RECURSIVE Walk(_, _)
Walk(dir, segments) ==
    IF Len(segments) = 1 THEN Path(dir, Head(segments) \o X_js)
    ELSE IF Head(segments) = ".."
    THEN Walk(IF dir = << >> THEN dir ELSE SubSeq(dir, 1, Len(dir) - 1), Tail(segments))
    ELSE Walk(Append(dir, Head(segments)), Tail(segments))

\* '../pages/<featureName>' as a path below the workspace root: the literal
\* directory names become strings, the module name stays text
ImportedFile(from, importing) == Walk(importing.dir, from)

\* C15: the import of the test module written to cypress/e2e/tests designates
\* the file createPageObject wrote, and imports the class that file exports.
C15_ImportResolves ==
    \A h \in Handlers :
        (variant = "legacy" /\ handlers[h].response = "ok") =>
            /\ ImportedFile(TestImport(handlers[h].cypressTests).from, handlers[h].testFilePath)
                 = handlers[h].pageObjectPath
            /\ TestImport(handlers[h].cypressTests).name = handlers[h].pageObjectMeta.className

ExpectedFormTests(d, k, meta) ==
    LET fields == Fields(d, k, meta)
        submitBtn == SubmitBtn(d, k, meta)
        click == Call("click", submitBtn[1])
        OthersOf(i) == [ j \in 1..(Len(fields) - 1) |-> Fill(fields[IF j < i THEN j ELSE j + 1]) ]
    IN IF fields = << >> \/ submitBtn = << >> THEN { }
       ELSE { It("valid data", << >>, [ i \in DOMAIN fields |-> Fill(fields[i]) ] \o << click >>) }
            \cup { It(IF IsBoolean(fields[i].type) THEN "not checked" ELSE "empty",
                      fields[i].elementName, OthersOf(i) \o << click >>) : i \in DOMAIN fields }
            \cup { It("long input", fields[i].elementName,
                      << Call("type", fields[i].elementName), click >>) :
                   i \in { i \in DOMAIN fields : ~ IsBoolean(fields[i].type) } }
            \cup { It("special characters", fields[i].elementName,
                      << Call("type", fields[i].elementName), click >>) :
                   i \in { i \in DOMAIN fields : ~ IsBoolean(fields[i].type) } }

\* C21: a form with correlated fields and a resolved submit control gets
\* exactly one positive test filling every field, per field one negative
\* test that fills every other field and leaves that one out, and per field
\* that is no checkbox or radio the two edge-case tests, each ending with a
\* click on the submit control; any other form gets no form test.
C21_FormTestsPerField ==
    (LegacyDone /\ tests[Len(tests)].status = "returned") =>
        { tests[Len(tests)].formTests[i] : i \in DOMAIN tests[Len(tests)].formTests }
          = UNION { ExpectedFormTests(doc, k, results[Len(results)].elementMeta) : k \in DOMAIN doc.forms }

\* how many nodes before the p-th node of the document have its tag
SameTagNodesBefore(p) == Cardinality({ q \in 1..(p - 1) : doc.nodes[q].tag = doc.nodes[p].tag })

\* the record the generator made of the p-th node of the document
RecordOfNode(p) ==
    records[CHOOSE i \in DOMAIN records :
                /\ records[i].node.tag = doc.nodes[p].tag
                /\ SameTagBefore(i) = SameTagNodesBefore(p)]

\* the fields of forms: input, select and textarea nodes inside a form
FormFieldNodes == { p \in DOMAIN doc.nodes : doc.nodes[p].form # 0
                                              /\ doc.nodes[p].tag \in { "input", "select", "textarea" } }

\* C22: for every input, select or textarea inside a form, the record that
\* generateCypressTests finds for it by prefix-matching the re-derived base
\* identifier is the record generatePageObjectClass made of that element: it
\* is found, and it is not the record of another element.
C22_CorrelationAgrees ==
    (LegacyDone /\ Len(records) = Len(doc.nodes)) =>
        \A p \in FormFieldNodes :
            LET match == FindMeta(results[Len(results)].elementMeta, FieldBase(doc.nodes[p]))
            IN /\ match # << >>
               /\ match[1].elementName = RecordOfNode(p).elementName

\* the element carries none of data-cy, data-test, data-testid and id
NoStableAttribute(n) == n.cy = << >> /\ n.test = << >> /\ n.testid = << >> /\ n.id = << >>

\* the attribute fallback of the element's category that comes first, "none"
\* when the element is left to the positional fallback
FallbackOf(n) ==
    IF n.name # << >> /\ n.tag \in { "input", "select", "textarea" } THEN "name"
    ELSE IF n.placeholder # << >> /\ n.tag \in { "input", "textarea" } THEN "placeholder"
    ELSE IF Trim(n.text) # << >> /\ n.tag \in { "button", "a" } THEN "text"
    ELSE IF n.href # << >> /\ n.tag = "a" THEN "href"
    ELSE IF n.class # << >> /\ n.tag = "button" THEN "class"
    ELSE "none"

\* the locator selects by that fallback
LocatesBy(locator, n) ==
    CASE FallbackOf(n) = "name" ->
           locator.fn = "get" /\ locator.attr = "name" /\ locator.val = n.name /\ locator.eq = NoIndex
      [] FallbackOf(n) = "placeholder" ->
           locator.fn = "get" /\ locator.attr = "placeholder" /\ locator.val = n.placeholder
           /\ locator.eq = NoIndex
      [] FallbackOf(n) = "text" ->
           locator.fn = "contains" /\ locator.val = Trim(n.text) /\ locator.eq = NoIndex
      [] FallbackOf(n) = "href" ->
           locator.fn = "get" /\ locator.attr = "href" /\ locator.val = n.href /\ locator.eq = NoIndex
      [] FallbackOf(n) = "class" ->
           locator.fn = "get" /\ locator.attr = "class" /\ locator.val = FirstToken(n.class)
           /\ locator.eq = NoIndex
      [] OTHER -> locator.fn = "get" /\ locator.eq # NoIndex

\* C23: without data-cy, data-test, data-testid and id the locator is taken
\* from the name (input, select, textarea), else the placeholder (input,
\* textarea), else the visible text (button, link), else the href (link),
\* else the first class token (button), else the position; a fallback of
\* another category is never used.
C23_FallbackOrder ==
    variant \in { "index", "generic" } =>
        \A i \in DOMAIN records :
            NoStableAttribute(records[i].node) => LocatesBy(records[i].locator, records[i].node)

\* a button with a name and a text, a link with a text and an href and a
\* select with only a placeholder were resolved
C23_Witness ==
    /\ variant \in { "index", "generic" }
    /\ \E i \in DOMAIN records : records[i].node = NamedButton
    /\ \E i \in DOMAIN records : records[i].node = TextHrefLink
    /\ \E i \in DOMAIN records : records[i].node = PlaceholderSelect

\* the verbs of the interaction methods of an element's category, and the
\* verb of its accessor
InteractionVerbs(n) ==
    CASE n.tag \in { "button", "a" } -> << "click" >>
      [] n.tag = "select" -> << "select" >>
      [] n.tag = "textarea" -> << "type", "clear" >>
      [] n.tag = "input" -> IF n.type \in { W_checkbox, W_radio }
                            THEN << "check", "uncheck" >> ELSE << "type", "clear" >>
AccessorVerb(n) ==
    CASE n.tag \in { "button", "a" } -> "getText"
      [] n.tag \in { "select", "textarea" } -> "getValue"
      [] n.tag = "input" -> IF n.type \in { W_checkbox, W_radio } THEN "isChecked" ELSE "getValue"

\* index.js returned a class for the document
IndexDone ==
    /\ variant = "index" /\ pc = "idle" /\ results # << >>
    /\ results[Len(results)].status = "returned"

\* C24: record by record, the class holds one locator-map entry and one
\* getter for the record, the interaction methods of its category (click;
\* type and clear; check and uncheck; select) and the accessor of its
\* category (getText; getValue; isChecked), and nothing else.
C24_MembersPerRecord ==
    IndexDone =>
        LET code == results[Len(results)].classCode
        IN /\ [ i \in DOMAIN code.elements |-> code.elements[i].key ]
                = [ i \in DOMAIN records |-> records[i].elementName ]
           /\ [ i \in DOMAIN code.getters |-> code.getters[i].ref ]
                = [ i \in DOMAIN records |-> records[i].elementName ]
           /\ [ i \in DOMAIN code.interactionMethods |->
                    << code.interactionMethods[i].verb, code.interactionMethods[i].ref >> ]
                = Concat([ i \in DOMAIN records |->
                             [ j \in DOMAIN InteractionVerbs(records[i].node) |->
                                 << InteractionVerbs(records[i].node)[j], records[i].elementName >> ] ])
           /\ [ i \in DOMAIN code.valueGetters |->
                    << code.valueGetters[i].verb, code.valueGetters[i].ref >> ]
                = [ i \in DOMAIN records |-> << AccessorVerb(records[i].node), records[i].elementName >> ]

\* first position at or after i that holds a letter or a digit (Len(s) + 1
\* when none)
RECURSIVE SkipNonAlnum(_, _)
SkipNonAlnum(s, i) == IF i <= Len(s) /\ ~IsAlnum(s[i]) THEN SkipNonAlnum(s, i + 1) ELSE i

\* the lower-camel-case token of a label: every maximal run of characters
\* other than letters and digits is removed, the character after it is
\* upper-cased, and the first character of the result is lower-cased
RECURSIVE WordsJoined(_, _)
WordsJoined(s, i) ==
    IF i > Len(s) THEN << >>
    ELSE IF ~IsAlnum(s[i])
         THEN LET j == SkipNonAlnum(s, i)
              IN IF j > Len(s) THEN << >>
                 ELSE << toUpperCase(s[j]) >> \o WordsJoined(s, j + 1)
         ELSE << s[i] >> \o WordsJoined(s, i + 1)
LowerCamel(s) == LowerFirst(WordsJoined(s, 1))

\* C25: toCamelCase turns every raw label into its lower-camel-case token,
\* made of letters and digits only: every maximal run of other characters,
\* punctuation included, is one word boundary, and the first character is
\* lower-case.
C25_CamelOnlyLettersAndDigits ==
    \A i \in DOMAIN records :
        LET token == toCamelCase(records[i].rawName)
        IN /\ \A j \in DOMAIN token : IsAlnum(token[j])
           /\ token = LowerCamel(records[i].rawName)

\* C26: a create_Page_Object_file handler of index.js that has returned, with
\* its files or with the error response, has left no browser running: the browser that launch started
\* was closed, also when newPage, goto or content failed.
C26_BrowserClosedOnReturn ==
    variant = "index" =>
        \A h \in Handlers :
            handlers[h].pc = "done" => handlers[h].browser # "open"

\* the backup files of the file an operation writes
Backups(fs, op) == { q \in DOMAIN fs : \E t \in 0..MaxClock : q = BackupPath(op, t) }

\* the handler has not changed the disk: it has written no page object, and
\* is not between the backup copy and the write of its first one
Untouched(g) == handlers[g].pageObjectPath = NoPath /\ handlers[g].pc # "write"

\* C27: a call of createPageObject that no other request disturbs destroys
\* nothing: when it returns, the target holds the new classCode, and the
\* content the target had when it existed is the content of a backup file;
\* no backup file exists when the target did not exist; and a backup copy
\* that fails leaves the disk unchanged and ends the call.
C27_PreviousContentKept ==
    [][ \A h \in Handlers :
          LET op == handlers[h].op
              target == TargetPath(op)
          IN (op.kind = "page" /\ \A g \in Handlers \ { h } : Untouched(g)) =>
                /\ (handlers[h].pc = "write" /\ handlers'[h].pc # "write") =>
                      /\ files'[target] = op.content
                      /\ IF target \in DOMAIN files
                         THEN \E q \in Backups(files', op) : files'[q] = files[target]
                         ELSE Backups(files', op) = { }
                /\ (handlers[h].pc = "copy" /\ handlers'[h].pc = "done") =>
                      /\ files' = files
                      /\ handlers'[h].response = "error" ]_vars

\* createPageObject of index.js returned after it replaced the page object of
\* an earlier session: the old class is in a backup file, the new one in the
\* target
C27_Witness ==
    /\ variant = "index"
    /\ \E h \in Handlers :
          /\ handlers[h].existed /\ handlers[h].pageObjectPath # NoPath
          /\ \A g \in Handlers \ { h } : Untouched(g)
          /\ files[handlers[h].pageObjectPath] = PageObjectOp(handlers[h].pageObjectMeta).content
          /\ files[handlers[h].pageObjectPath] # OldPage(handlers[h].pageObjectMeta.className)
          /\ \E q \in Backups(files, PageObjectOp(handlers[h].pageObjectMeta)) :
                files[q] = OldPage(handlers[h].pageObjectMeta.className)

\* the content createPageObject wrote for the handler
Written(h) == PageObjectOp(handlers[h].pageObjectMeta).content

\* the content is on the disk, in the target of the operation or in a backup of it
Kept(fs, op, content) ==
    \/ fs[TargetPath(op)] = content
    \/ \E q \in Backups(fs, op) : fs[q] = content

\* C28: once two requests of index.js for the same featureName have both
\* finished, the class each of them wrote to cypress/pages/<featureName>.js
\* is the content of that file or of one of its backup files, however their
\* fileExists, copyFile and writeFile steps interleaved.
C28_NoContentLost ==
    variant = "index" =>
        \A g \in Handlers : \A h \in Handlers :
            ( /\ g # h
              /\ handlers[g].response = "ok" /\ handlers[h].response = "ok"
              /\ handlers[g].pageObjectPath = handlers[h].pageObjectPath ) =>
                Kept(files, PageObjectOp(handlers[g].pageObjectMeta), Written(g))

\* the directories of the chain of the search, the start path and the root included
ChainOf(w) == DOMAIN w.tree

\* the directory of the chain has a configuration file, or a package.json
\* that lists cypress or @cypress/react
Qualifies(w, p) ==
    LET dir == w.tree[p]
    IN \/ dir.configJs \/ dir.configTs
       \/ /\ dir.package.exists /\ dir.package.parses
          /\ { "cypress", "@cypress/react" } \cap
               (dir.package.dependencies \cup dir.package.devDependencies) # { }

\* C29: detectWorkspace returns the nearest directory on the chain from
\* startPath up to the root, both included, that has cypress.config.js or
\* cypress.config.ts or a package.json listing cypress or @cypress/react, and
\* throws only when no directory of the chain has.
C29_NearestProjectFound ==
    /\ workspace.pc = "returned" =>
          /\ Qualifies(workspace, workspace.workspaceRoot)
          /\ \A p \in ChainOf(workspace) :
                Qualifies(workspace, p) => Len(p) <= Len(workspace.workspaceRoot)
    /\ workspace.pc = "threw" =>
          \A p \in ChainOf(workspace) : ~Qualifies(workspace, p)

IndexPath == Path(PagesDir, F_index_js)

\* the module file './<from>' designates from cypress/pages
ExportedFrom(e) == Path(PagesDir, e.from \o X_js)

\* C30: once create_Page_Object_file requests of index.js have succeeded,
\* every export line of cypress/pages/index.js names the class that the
\* page-object file it refers to exports, and refers neither to index.js nor
\* to a backup file.
C30_IndexExportsClasses ==
    ( /\ variant = "index"
      /\ \E h \in Handlers : handlers[h].response = "ok"
      /\ \A h \in Handlers : handlers[h].pc = "done" ) =>
        \A e \in files[IndexPath].exports :
            /\ ExportedFrom(e) \in DOMAIN files
            /\ ExportedFrom(e) # IndexPath
            /\ ~Includes(e.from, X_backup)
            /\ e.name = files[ExportedFrom(e)].classCode.className

====
